---- MODULE Spec2Model ----
(***************************************************************************)
(* Form-Function-Failure core of safetymindpro:                            *)
(*   backend/core/universal_graph.py     entities, graph index, to/from    *)
(*   backend/algorithms/*.py             structural / functional / risk    *)
(*                                                                         *)
(* Conventions of the model                                                *)
(*   - ids are the integers 1..MaxId; one id space is shared by the three  *)
(*     entity kinds, as in the code, where the typed maps and the networkx *)
(*     index are all keyed by the raw id string;                           *)
(*   - None is 0;                                                          *)
(*   - a Python dict is a TLA+ function whose DOMAIN is its key set;       *)
(*   - probabilities and reliabilities are integers in tenths (0..10       *)
(*     stands for 0.0..1.0); a quotient is kept as <<numerator,            *)
(*     denominator>> and compared by cross multiplication;                 *)
(*   - the graph index (networkx MultiDiGraph) is its node set and the bag *)
(*     of its edges <<u, v, relation>>.                                    *)
(***************************************************************************)
EXTENDS Integers, Sequences, FiniteSets, Bags, TLC

\* ---------------------------------------------------------------- bounds
MaxId == 2
MaxOps == 4

Ids == 1..MaxId
None == 0

VARIABLES
    \* UniversalGraph.__init__ (universal_graph.py:380-390)
    form_elements,      \* id -> FormElement
    functions,          \* id -> Function
    function_keys,      \* insertion order of the keys of `functions`
    failure_modes,      \* id -> FailureMode
    function_branches,  \* list of FunctionBranch
    failure_branches,   \* list of FailurePropagationBranch
    nodes,              \* graph.nodes
    edges,              \* graph.edges, a bag of <<u, v, relation>>
    \* history
    last,               \* the last operation called, its ids, how it ended
    overwritten,        \* ids add_failure_mode was given while already a key
    nops,               \* number of operations called so far
    \* _compute_max_depth / Function.get_ancestors in progress
    pc,                 \* "idle", "max_depth" (the for loop), "get_ancestors"
    todo,               \* the Functions the for loop has still to visit
    current,            \* get_ancestors: `current`
    ancestors,          \* get_ancestors: len(ancestors), saturating
    max_depth,          \* _compute_max_depth: `max_depth`
    \* TimeSeriesData.__init__ (universal_graph.py:26-28)
    timestamps,         \* list of timestamps
    values,             \* property name -> list of values
    samples,            \* history: the (timestamp, property, value) added
    \* h = UniversalGraph.from_dict(g.to_dict())
    restored            \* whether it was made, the graph h, the map given

gvars == <<form_elements, functions, function_keys, failure_modes,
           function_branches, failure_branches, nodes, edges>>
hvars == <<last, overwritten, nops>>
wvars == <<pc, todo, current, ancestors, max_depth>>
tsvars == <<timestamps, values, samples>>
rvars == <<restored>>
vars == <<form_elements, functions, function_keys, failure_modes,
          function_branches, failure_branches, nodes, edges, last,
          overwritten, nops, pc, todo, current, ancestors, max_depth,
          timestamps, values, samples, restored>>

\* ------------------------------------------------------------- helpers
EmptyMap == [x \in {} |-> 0]

Range(s) == {s[i] : i \in DOMAIN s}

Count(s, x) == Cardinality({i \in DOMAIN s : s[i] = x})

\* `x not in list: list.append(x)`
AppendIfAbsent(s, x) == IF x \in Range(s) THEN s ELSE Append(s, x)

\* ------------------------------------------------------------ entities
\* FormElement.__init__
FormElement(id, element_type) == [id |-> id, type |-> element_type]

\* Function.__init__: no parent, no children
Function(id, outputs) ==
    [id |-> id, parent_function |-> None, children |-> <<>>, outputs |-> outputs]

\* FailureMode.__init__ followed by the field assignments of a mapper
FailureMode(id, severity, probability, detectability, affects_forms) ==
    [id |-> id, probability |-> probability, severity |-> severity,
     detectability |-> detectability,
     affects_functions |-> <<>>, affects_forms |-> affects_forms,
     propagates_to |-> <<>>, mitigated_by |-> <<>>]

\* FunctionBranch.__init__ ; only the ids of the two Function objects are read
FunctionBranch(source, target, reliability, latency) ==
    [source |-> source, target |-> target, connection_type |-> "sequential",
     reliability |-> reliability, latency |-> latency]

\* FailurePropagationBranch.__init__
FailurePropagationBranch(source, target, propagation_probability) ==
    [source |-> source, target |-> target,
     propagation_probability |-> propagation_probability,
     propagation_mechanism |-> ""]

\* --------------------------------------------------------- UniversalGraph
\* A UniversalGraph value: the fields of one instance.
G == [form_elements |-> form_elements, functions |-> functions,
      function_keys |-> function_keys, failure_modes |-> failure_modes,
      function_branches |-> function_branches,
      failure_branches |-> failure_branches, nodes |-> nodes, edges |-> edges]

\* UniversalGraph.__init__
EmptyGraph ==
    [form_elements |-> EmptyMap, functions |-> EmptyMap, function_keys |-> <<>>,
     failure_modes |-> EmptyMap, function_branches |-> <<>>,
     failure_branches |-> <<>>, nodes |-> {}, edges |-> EmptyBag]

\* networkx add_edge: the endpoints become nodes, parallel edges are kept
add_edge(g, u, v, relation) ==
    [g EXCEPT !.nodes = @ \cup {u, v},
              !.edges = @ (+) SetToBag({<<u, v, relation>>})]

add_form_element(g, element) ==
    [g EXCEPT !.form_elements = (element.id :> element) @@ @,
              !.nodes = @ \cup {element.id}]

add_function(g, function) ==
    [g EXCEPT !.functions = (function.id :> function) @@ @,
              !.function_keys = AppendIfAbsent(@, function.id),
              !.nodes = @ \cup {function.id}]

add_failure_mode(g, failure) ==
    [g EXCEPT !.failure_modes = (failure.id :> failure) @@ @,
              !.nodes = @ \cup {failure.id}]

\* mutant: the form id is not looked up
link_form_to_function_unchecked(g, form_id, function_id) ==
    IF function_id \in DOMAIN g.functions
    THEN add_edge(g, form_id, function_id, "performs")
    ELSE g

link_form_to_function(g, form_id, function_id) ==
    IF form_id \in DOMAIN g.form_elements /\ function_id \in DOMAIN g.functions
    THEN add_edge(g, form_id, function_id, "performs")
    ELSE g

\* mutant: the id is appended without the `not in` test
link_function_to_failure_append(g, function_id, failure_id) ==
    IF function_id \in DOMAIN g.functions /\ failure_id \in DOMAIN g.failure_modes
    THEN [add_edge(g, function_id, failure_id, "has_failure") EXCEPT
             !.failure_modes[failure_id].affects_functions =
                 Append(@, function_id)]
    ELSE g

link_function_to_failure(g, function_id, failure_id) ==
    IF function_id \in DOMAIN g.functions /\ failure_id \in DOMAIN g.failure_modes
    THEN [add_edge(g, function_id, failure_id, "has_failure") EXCEPT
             !.failure_modes[failure_id].affects_functions =
                 AppendIfAbsent(@, function_id)]
    ELSE g

link_form_to_failure(g, form_id, failure_id) ==
    IF form_id \in DOMAIN g.form_elements /\ failure_id \in DOMAIN g.failure_modes
    THEN [add_edge(g, form_id, failure_id, "has_failure") EXCEPT
             !.failure_modes[failure_id].affects_forms =
                 AppendIfAbsent(@, form_id)]
    ELSE g

add_function_branch(g, branch) ==
    add_edge([g EXCEPT !.function_branches = Append(@, branch)],
             branch.source, branch.target, "function_flow")

\* self.failure_modes[branch.source_failure.id] raises KeyError when the
\* source is not a key, after the branch and the edge have been added
add_failure_branch_raises(g, branch) ==
    branch.source \notin DOMAIN g.failure_modes

add_failure_branch(g, branch) ==
    LET h == add_edge([g EXCEPT !.failure_branches = Append(@, branch)],
                      branch.source, branch.target, "propagates_to")
    IN  IF add_failure_branch_raises(g, branch)
        THEN h
        ELSE [h EXCEPT !.failure_modes[branch.source].propagates_to =
                           AppendIfAbsent(@, branch.target)]

\* Function.add_child on two Functions of one id -> Function map
add_child(fns, parent, child) ==
    [fns EXCEPT ![parent].children = Append(@, child),
                ![child].parent_function = parent]

\* ------------------------------------------------- to_dict / from_dict
\* The keys of a dict in ascending order (the order in which the model walks
\* form_elements and failure_modes; nothing modelled depends on it).
RECURSIVE SortedSeq(_)
SortedSeq(S) ==
    IF S = {} THEN <<>>
    ELSE LET m == CHOOSE x \in S : \A y \in S : x <= y
         IN  <<m>> \o SortedSeq(S \ {m})

\* FormElement.to_dict / Function.to_dict / FailureMode.to_dict /
\* FunctionBranch.to_dict / FailurePropagationBranch.to_dict
FormElement_to_dict(e) == [id |-> e.id, type |-> e.type]

Function_to_dict(f) ==
    [id |-> f.id, parent_function |-> f.parent_function,
     children |-> f.children, outputs |-> f.outputs]

FailureMode_to_dict(m) ==
    [id |-> m.id, probability |-> m.probability, severity |-> m.severity,
     detectability |-> m.detectability,
     affects_functions |-> m.affects_functions,
     affects_forms |-> m.affects_forms,
     propagates_to |-> m.propagates_to, mitigated_by |-> m.mitigated_by]

FunctionBranch_to_dict(b) ==
    [source |-> b.source, target |-> b.target,
     connection_type |-> b.connection_type,
     reliability |-> b.reliability, latency |-> b.latency]

FailurePropagationBranch_to_dict(b) ==
    [source |-> b.source, target |-> b.target,
     propagation_probability |-> b.propagation_probability,
     propagation_mechanism |-> b.propagation_mechanism]

\* UniversalGraph.to_dict; each dict of the serialized map is the list of its
\* values in iteration order (from_dict reads only .values())
to_dict(g) ==
    [form_elements |->
         [i \in DOMAIN SortedSeq(DOMAIN g.form_elements) |->
             FormElement_to_dict(g.form_elements[SortedSeq(DOMAIN g.form_elements)[i]])],
     functions |->
         [i \in DOMAIN g.function_keys |->
             Function_to_dict(g.functions[g.function_keys[i]])],
     failure_modes |->
         [i \in DOMAIN SortedSeq(DOMAIN g.failure_modes) |->
             FailureMode_to_dict(g.failure_modes[SortedSeq(DOMAIN g.failure_modes)[i]])],
     function_branches |->
         [i \in DOMAIN g.function_branches |->
             FunctionBranch_to_dict(g.function_branches[i])],
     failure_branches |->
         [i \in DOMAIN g.failure_branches |->
             FailurePropagationBranch_to_dict(g.failure_branches[i])]]

\* FormElement.from_dict / Function.from_dict (without relationships) /
\* FailureMode.from_dict
FormElement_from_dict(d) == FormElement(d.id, d.type)

Function_from_dict(d) == Function(d.id, d.outputs)

FailureMode_from_dict(d) ==
    [id |-> d.id, probability |-> d.probability, severity |-> d.severity,
     detectability |-> d.detectability,
     affects_functions |-> d.affects_functions,
     affects_forms |-> d.affects_forms,
     propagates_to |-> d.propagates_to, mitigated_by |-> d.mitigated_by]

\* from_dict, "Restore form elements"
RECURSIVE restore_form_elements(_, _)
restore_form_elements(g, ds) ==
    IF ds = <<>> THEN g
    ELSE restore_form_elements(
             add_form_element(g, FormElement_from_dict(Head(ds))), Tail(ds))

\* from_dict, "Restore functions"
RECURSIVE restore_functions(_, _)
restore_functions(g, ds) ==
    IF ds = <<>> THEN g
    ELSE restore_functions(
             add_function(g, Function_from_dict(Head(ds))), Tail(ds))

\* from_dict, "Restore function relationships": the second pass
RECURSIVE restore_function_relationships(_, _)
restore_function_relationships(g, ds) ==
    IF ds = <<>> THEN g
    ELSE LET func_id == Head(ds).id
             parent_id == Head(ds).parent_function
         IN  restore_function_relationships(
                 IF parent_id # None /\ parent_id \in DOMAIN g.functions
                 THEN [g EXCEPT !.functions = add_child(@, parent_id, func_id)]
                 ELSE g,
                 Tail(ds))

\* from_dict, "Restore failure modes"
RECURSIVE restore_failure_modes(_, _)
restore_failure_modes(g, ds) ==
    IF ds = <<>> THEN g
    ELSE restore_failure_modes(
             add_failure_mode(g, FailureMode_from_dict(Head(ds))), Tail(ds))

\* from_dict, "Restore function branches"
RECURSIVE restore_function_branches(_, _)
restore_function_branches(g, ds) ==
    IF ds = <<>> THEN g
    ELSE LET d == Head(ds)
         IN  restore_function_branches(
                 IF d.source \in DOMAIN g.functions /\ d.target \in DOMAIN g.functions
                 THEN add_function_branch(
                          g, FunctionBranch(d.source, d.target, d.reliability, d.latency))
                 ELSE g,
                 Tail(ds))

\* from_dict, "Restore failure branches"
RECURSIVE restore_failure_branches(_, _)
restore_failure_branches(g, ds) ==
    IF ds = <<>> THEN g
    ELSE LET d == Head(ds)
         IN  restore_failure_branches(
                 IF d.source \in DOMAIN g.failure_modes
                    /\ d.target \in DOMAIN g.failure_modes
                 THEN add_failure_branch(
                          g, FailurePropagationBranch(
                                 d.source, d.target, d.propagation_probability))
                 ELSE g,
                 Tail(ds))

\* UniversalGraph.from_dict
from_dict(data) ==
    LET g1 == restore_form_elements(EmptyGraph, data.form_elements)
        g2 == restore_functions(g1, data.functions)
        g3 == restore_function_relationships(g2, data.functions)
        g4 == restore_failure_modes(g3, data.failure_modes)
        g5 == restore_function_branches(g4, data.function_branches)
    IN  restore_failure_branches(g5, data.failure_branches)

\* ------------------------------------------------------------- actions
SetGraph(h) ==
    /\ form_elements' = h.form_elements
    /\ functions' = h.functions
    /\ function_keys' = h.function_keys
    /\ failure_modes' = h.failure_modes
    /\ function_branches' = h.function_branches
    /\ failure_branches' = h.failure_branches
    /\ nodes' = h.nodes
    /\ edges' = h.edges

\* One call of an operation: what was called and how it ended.
\* outcome: "done" (returned), "raised" (an exception left the call)
Called(op, args, outcome) ==
    /\ last' = [op |-> op, args |-> args, outcome |-> outcome]
    /\ nops' = nops + 1

AddFormElement(id) ==
    /\ SetGraph(add_form_element(G, FormElement(id, "component")))
    /\ Called("add_form_element", <<id>>, "done")
    /\ UNCHANGED overwritten

AddFunction(id) ==
    /\ SetGraph(add_function(G, Function(id, <<>>)))
    /\ Called("add_function", <<id>>, "done")
    /\ UNCHANGED overwritten

AddFailureMode(failure) ==
    /\ SetGraph(add_failure_mode(G, failure))
    /\ Called("add_failure_mode", <<failure.id>>, "done")
    /\ overwritten' = IF failure.id \in DOMAIN failure_modes
                      THEN overwritten \cup {failure.id} ELSE overwritten

LinkFormToFunction(form_id, function_id) ==
    /\ SetGraph(link_form_to_function(G, form_id, function_id))
    /\ Called("link_form_to_function", <<form_id, function_id>>, "done")
    /\ UNCHANGED overwritten

LinkFunctionToFailure(function_id, failure_id) ==
    /\ SetGraph(link_function_to_failure(G, function_id, failure_id))
    /\ Called("link_function_to_failure", <<function_id, failure_id>>, "done")
    /\ UNCHANGED overwritten

LinkFormToFailure(form_id, failure_id) ==
    /\ SetGraph(link_form_to_failure(G, form_id, failure_id))
    /\ Called("link_form_to_failure", <<form_id, failure_id>>, "done")
    /\ UNCHANGED overwritten

AddFunctionBranch(branch) ==
    /\ SetGraph(add_function_branch(G, branch))
    /\ Called("add_function_branch", <<branch.source, branch.target>>, "done")
    /\ UNCHANGED overwritten

AddFailureBranch(branch) ==
    /\ SetGraph(add_failure_branch(G, branch))
    /\ Called("add_failure_branch", <<branch.source, branch.target>>,
              IF add_failure_branch_raises(G, branch) THEN "raised" ELSE "done")
    /\ UNCHANGED overwritten

\* graph.functions[parent_id].add_child(graph.functions[child_id])
AddChild(parent, child) ==
    /\ parent \in DOMAIN functions
    /\ child \in DOMAIN functions
    /\ SetGraph([G EXCEPT !.functions = add_child(@, parent, child)])
    /\ Called("add_child", <<parent, child>>, "done")
    /\ UNCHANGED overwritten

\* The FailureModes a caller passes to add_failure_mode: fresh, or with the
\* component it was declared for (domains/*/mapper.py, map_failure_mode)
NewFailureModes ==
    {FailureMode(id, 5, 5, 0, af) :
        id \in Ids, af \in {<<>>} \cup {<<c>> : c \in Ids}}

InitGraph ==
    /\ form_elements = EmptyGraph.form_elements
    /\ functions = EmptyGraph.functions
    /\ function_keys = EmptyGraph.function_keys
    /\ failure_modes = EmptyGraph.failure_modes
    /\ function_branches = EmptyGraph.function_branches
    /\ failure_branches = EmptyGraph.failure_branches
    /\ nodes = EmptyGraph.nodes
    /\ edges = EmptyGraph.edges
    /\ last = [op |-> "init", args |-> <<>>, outcome |-> "done"]
    /\ overwritten = {}
    /\ nops = 0
    \* _compute_max_depth is not running
    /\ pc = "idle"
    /\ todo = <<>>
    /\ current = None
    /\ ancestors = 0
    /\ max_depth = 0
    \* TimeSeriesData.__init__
    /\ timestamps = <<>>
    /\ values = EmptyMap
    /\ samples = <<>>
    /\ restored = [made |-> FALSE, graph |-> EmptyGraph, data |-> to_dict(EmptyGraph)]

\* ------------------------------------------- specification: graph build
\* Every operation of the Entity & Graph Index, on any ids, at most MaxOps
\* calls in a row from the empty graph.
NextGraph ==
    /\ nops < MaxOps
    /\ UNCHANGED <<wvars, tsvars, rvars>>
    /\ \/ \E id \in Ids : AddFormElement(id)
       \/ \E id \in Ids : AddFunction(id)
       \/ \E failure \in NewFailureModes : AddFailureMode(failure)
       \/ \E a, b \in Ids : LinkFormToFunction(a, b)
       \/ \E a, b \in Ids : LinkFunctionToFailure(a, b)
       \/ \E a, b \in Ids : LinkFormToFailure(a, b)
       \/ \E a, b \in Ids : AddFunctionBranch(FunctionBranch(a, b, 9, 1))
       \/ \E a, b \in Ids : AddFailureBranch(FailurePropagationBranch(a, b, 5))
       \/ \E a, b \in Ids : AddChild(a, b)

SpecGraph == InitGraph /\ [][NextGraph]_vars

\* ------------------------------------------ specification: adds and links
MaxLinkOps == 4

NextLink ==
    /\ nops < MaxLinkOps
    /\ UNCHANGED <<wvars, tsvars, rvars>>
    /\ \/ \E id \in Ids : AddFormElement(id)
       \/ \E id \in Ids : AddFunction(id)
       \/ \E failure \in NewFailureModes : AddFailureMode(failure)
       \/ \E a, b \in Ids : LinkFormToFunction(a, b)
       \/ \E a, b \in Ids : LinkFunctionToFailure(a, b)
       \/ \E a, b \in Ids : LinkFormToFailure(a, b)

SpecLink == InitGraph /\ [][NextLink]_vars

\* ================================================================ claims
BagOfSeq(s) == [x \in Range(s) |-> Count(s, x)]

\* C2 -- round trip: from_dict(to_dict(g)) has the entity ids of g per kind,
\* the field values of every entity (the four FailureMode relationship lists
\* included), the parent and the children of every Function, and the two
\* branch lists of g as multisets.
C2_RoundTripLossless ==
    LET h == from_dict(to_dict(G))
    IN  /\ h.form_elements = form_elements
        /\ h.functions = functions
        /\ h.failure_modes = failure_modes
        /\ BagOfSeq(h.function_branches) = BagOfSeq(function_branches)
        /\ BagOfSeq(h.failure_branches) = BagOfSeq(failure_branches)

\* C3 -- add_function_branch / add_failure_branch called with a source or a
\* target that is no key of functions (resp. failure_modes) return without an
\* exception and change nothing of the graph.
C3_BranchDanglingNoOp ==
    [][/\ (/\ last'.op = "add_function_branch"
           /\ ~(last'.args[1] \in DOMAIN functions
                /\ last'.args[2] \in DOMAIN functions))
          => (last'.outcome = "done" /\ UNCHANGED gvars)
       /\ (/\ last'.op = "add_failure_branch"
           /\ ~(last'.args[1] \in DOMAIN failure_modes
                /\ last'.args[2] \in DOMAIN failure_modes))
          => (last'.outcome = "done" /\ UNCHANGED gvars)]_vars

\* C4 -- the three link operations called with an endpoint that is no key of
\* its own typed map return without an exception and change nothing of the
\* graph (typed maps, affects_* lists, branch lists, index).
C4_LinkDanglingNoOp ==
    [][/\ (/\ last'.op = "link_form_to_function"
           /\ ~(last'.args[1] \in DOMAIN form_elements
                /\ last'.args[2] \in DOMAIN functions))
          => (last'.outcome = "done" /\ UNCHANGED gvars)
       /\ (/\ last'.op = "link_function_to_failure"
           /\ ~(last'.args[1] \in DOMAIN functions
                /\ last'.args[2] \in DOMAIN failure_modes))
          => (last'.outcome = "done" /\ UNCHANGED gvars)
       /\ (/\ last'.op = "link_form_to_failure"
           /\ ~(last'.args[1] \in DOMAIN form_elements
                /\ last'.args[2] \in DOMAIN failure_modes))
          => (last'.outcome = "done" /\ UNCHANGED gvars)]_vars

\* C4 witness: a link has just been called on an id that is a key of another
\* typed map but not of its own, in a graph that has entities and edges.
C4_Witness ==
    /\ last.op = "link_form_to_function"
    /\ last.args[1] \notin DOMAIN form_elements
    /\ last.args[1] \in DOMAIN functions
    /\ last.args[2] \in DOMAIN functions
    /\ edges # EmptyBag

\* has_failure edges of the index
HasFailureEdges == {e \in BagToSet(edges) : e[3] = "has_failure"}

\* The affects_* lists agree with the has_failure edges: the source x of an
\* edge x -> m is listed exactly once in the list of its kind (for an id that
\* is a Function and a Form at once, in one of the two at least).
AffectsConsistent ==
    \A e \in HasFailureEdges :
        LET x == e[1]
            m == failure_modes[e[2]]
            inFunctions == Count(m.affects_functions, x) = 1
            inForms == Count(m.affects_forms, x) = 1
        IN  /\ x \in DOMAIN functions \cup DOMAIN form_elements
            /\ x \notin DOMAIN form_elements => inFunctions
            /\ x \notin DOMAIN functions => inForms
            /\ inFunctions \/ inForms

\* C5 (as stated) -- in every state reached by adds (re-adds included) and
\* failure links, for every has_failure edge x -> m, x occurs exactly once in
\* affects_functions of m when x is a Function, resp. in affects_forms when x
\* is a Form.
C5_AffectsConsistentAlways == AffectsConsistent

\* C5 (amended) -- the same, in the states where no FailureMode was added
\* under an id that was already a key of failure_modes.
C5_AffectsConsistentNoOverwrite == overwritten = {} => AffectsConsistent

\* C5 witness: a Function and a Form are both linked to one FailureMode, one
\* of them twice (two parallel edges), nothing overwritten.
C5_Witness ==
    /\ overwritten = {}
    /\ \E e \in HasFailureEdges : CopiesIn(e, edges) = 2
    /\ \E m \in DOMAIN failure_modes :
           failure_modes[m].affects_functions # <<>>


\* ------------------------------------------------- function tree analysis
MaxFn == 3
MaxTreeOps == 5

FnIds == 1..MaxFn

\* More frames than any acyclic chain of MaxFn Functions needs (the
\* interpreter's limit is 1000 frames); reaching it is a RecursionError.
RecursionLimit == MaxFn + 1

\* build_function_hierarchy, build_tree(func): TRUE iff the recursion over
\* func.children exceeds the recursion limit
RECURSIVE build_tree_raises(_, _, _)
build_tree_raises(fns, func, frames) ==
    IF frames = 0 THEN TRUE
    ELSE \E i \in DOMAIN fns[func].children :
             build_tree_raises(fns, fns[func].children[i], frames - 1)

\* build_function_hierarchy: roots = functions without a parent
roots(fns) == {f \in DOMAIN fns : fns[f].parent_function = None}

\* build_function_hierarchy up to the call of _compute_max_depth: the 'roots'
\* entry is evaluated first; a RecursionError in build_tree leaves the call,
\* otherwise _compute_max_depth starts its for loop over functions.values()
BuildFunctionHierarchy ==
    /\ pc = "idle"
    /\ nops < MaxTreeOps
    /\ nops' = nops + 1
    /\ IF \E r \in roots(functions) :
              build_tree_raises(functions, r, RecursionLimit)
       THEN /\ last' = [op |-> "build_function_hierarchy", args |-> <<>>,
                        outcome |-> "raised"]
            /\ UNCHANGED wvars
       ELSE /\ last' = [op |-> "build_function_hierarchy", args |-> <<>>,
                        outcome |-> "running"]
            /\ pc' = "max_depth"
            /\ todo' = function_keys
            /\ max_depth' = 0
            /\ UNCHANGED <<current, ancestors>>
    /\ UNCHANGED <<gvars, overwritten, tsvars, rvars>>

\* _compute_max_depth, loop head: func.get_ancestors() is entered with
\* ancestors = [] and current = self.parent_function
GetAncestors ==
    /\ pc = "max_depth"
    /\ todo # <<>>
    /\ pc' = "get_ancestors"
    /\ current' = functions[Head(todo)].parent_function
    /\ ancestors' = 0
    /\ todo' = Tail(todo)
    /\ UNCHANGED <<gvars, hvars, tsvars, rvars, max_depth>>

\* get_ancestors, one turn of `while current is not None`; the length of the
\* list is kept up to MaxFn, which is more than any acyclic chain has
GetAncestorsLoop ==
    /\ pc = "get_ancestors"
    /\ current # None
    /\ ancestors' = IF ancestors < MaxFn THEN ancestors + 1 ELSE ancestors
    /\ current' = functions[current].parent_function
    /\ UNCHANGED <<gvars, hvars, tsvars, rvars, pc, todo, max_depth>>

\* get_ancestors returns; max_depth = max(max_depth, depth)
GetAncestorsReturn ==
    /\ pc = "get_ancestors"
    /\ current = None
    /\ max_depth' = IF ancestors > max_depth THEN ancestors ELSE max_depth
    /\ pc' = "max_depth"
    /\ ancestors' = 0
    /\ UNCHANGED <<gvars, hvars, tsvars, rvars, todo, current>>

\* _compute_max_depth returns and build_function_hierarchy with it
ComputeMaxDepthReturn ==
    /\ pc = "max_depth"
    /\ todo = <<>>
    /\ pc' = "idle"
    /\ last' = [last EXCEPT !.outcome = "done"]
    /\ UNCHANGED <<gvars, overwritten, nops, tsvars, rvars, todo, current, ancestors,
                   max_depth>>

\* The running call goes on
Running ==
    GetAncestors \/ GetAncestorsLoop \/ GetAncestorsReturn
        \/ ComputeMaxDepthReturn

\* The 'functions' entry of a serialized graph: any Functions, each naming
\* any id or none as its parent_function
RECURSIVE FunctionDicts(_)
FunctionDicts(S) ==
    {<<>>} \cup
    UNION {{<<[id |-> id, parent_function |-> p, children |-> <<>>,
               outputs |-> <<>>]>> \o rest :
               p \in FnIds \cup {None}, rest \in FunctionDicts(S \ {id})} :
           id \in S}

\* graph = UniversalGraph.from_dict(data): a new graph, so the first operation;
\* it makes one add_function call for each entry
FromDict(data) ==
    /\ nops = 0
    /\ SetGraph(from_dict(data))
    /\ last' = [op |-> "from_dict", args |-> <<>>, outcome |-> "done"]
    /\ nops' = nops + Len(data.functions)
    /\ UNCHANGED overwritten

NextTree ==
    \/ /\ pc = "idle"
       /\ nops < MaxTreeOps
       /\ UNCHANGED <<wvars, tsvars, rvars>>
       /\ \/ \E id \in FnIds \ DOMAIN functions : AddFunction(id)
          \/ \E a, b \in FnIds : AddChild(a, b)
          \/ \E fs \in FunctionDicts(FnIds) \ {<<>>} :
                 FromDict([form_elements |-> <<>>, functions |-> fs,
                           failure_modes |-> <<>>, function_branches |-> <<>>,
                           failure_branches |-> <<>>])
    \/ BuildFunctionHierarchy
    \/ Running

SpecTree == InitGraph /\ [][NextTree]_vars

\* The interpreter keeps executing a call that has not returned
SpecTreeFair == SpecTree /\ WF_vars(Running)

\* C6: after any add_child calls and in any graph from_dict returns, A is in
\* B.children if and only if A.parent_function is B
C6_ParentChildInvariant ==
    \A a, b \in DOMAIN functions :
        (a \in Range(functions[b].children)) <=> (functions[a].parent_function = b)

\* C8: on any wiring of parents and children, cyclic ones included,
\* build_function_hierarchy does not raise and, once called, returns
C8_CyclicInputTolerated ==
    /\ [](last.op = "build_function_hierarchy" => last.outcome # "raised")
    /\ (pc # "idle") ~> (pc = "idle")


\* --------------------------------------------------------- TimeSeriesData
MaxTime == 2
MaxValue == 2
MaxSamples == 4

Timestamps == 1..MaxTime
PropertyNames == {"temperature", "pressure"}
SampleValues == 1..MaxValue

\* TimeSeriesData.add
add(timestamp, property_name, value) ==
    /\ values' =
           LET vs == IF property_name \in DOMAIN values THEN values
                     ELSE [n \in DOMAIN values \cup {property_name} |->
                              IF n \in DOMAIN values THEN values[n] ELSE <<>>]
           IN  [vs EXCEPT ![property_name] = Append(@, value)]
    /\ timestamps' = AppendIfAbsent(timestamps, timestamp)
    /\ samples' = Append(samples, <<timestamp, property_name, value>>)

\* FormElement.add_property_sample: self.properties.add(timestamp, name, value)
AddPropertySample(timestamp, name, value) ==
    /\ Len(samples) < MaxSamples
    /\ add(timestamp, name, value)
    /\ UNCHANGED <<gvars, hvars, wvars, rvars>>

NextSeries ==
    \E t \in Timestamps, n \in PropertyNames, v \in SampleValues :
        AddPropertySample(t, n, v)

SpecSeries == InitGraph /\ [][NextSeries]_vars

\* C7: after any add / add_property_sample calls every property's value
\* sequence is as long as the timestamp sequence, and its value at index i
\* is the one that was added with timestamps[i]
C7_SeriesAligned ==
    \A n \in DOMAIN values :
        /\ Len(values[n]) = Len(timestamps)
        /\ \A i \in DOMAIN values[n] :
               i \in DOMAIN timestamps
                   /\ <<timestamps[i], n, values[n][i]>> \in Range(samples)


\* ------------------------------------------------------ cascading failures
MaxFm == 3
MaxCascadeOps == 5

FmIds == 1..MaxFm

\* The probabilities the callers pass, in tenths: 0.5 and 1.0
Probabilities == {5, 10}

\* The graph after the step
Gp ==
    [form_elements |-> form_elements', functions |-> functions',
     function_keys |-> function_keys', failure_modes |-> failure_modes',
     function_branches |-> function_branches',
     failure_branches |-> failure_branches', nodes |-> nodes',
     edges |-> edges']

\* sum(list)
RECURSIVE sum(_)
sum(s) == IF s = <<>> THEN 0 ELSE Head(s) + sum(Tail(s))

\* A float as the fraction num/den it stands for (den > 0)
Fraction(num, den) == [num |-> num, den |-> den]

\* x <= y on fractions
LessEq(x, y) == x.num * y.den <= y.num * x.den

\* _compute_failure_cascade, `for next_id in ...propagates_to`: visited is
\* the set of the ids in cascade
RECURSIVE cascade_for(_, _, _)
cascade_for(cascade, queue, propagates_to) ==
    IF propagates_to = <<>> THEN [cascade |-> cascade, queue |-> queue]
    ELSE LET next_id == Head(propagates_to)
         IN  IF next_id \notin Range(cascade)
             THEN cascade_for(Append(cascade, next_id), Append(queue, next_id),
                              Tail(propagates_to))
             ELSE cascade_for(cascade, queue, Tail(propagates_to))

\* _compute_failure_cascade, `while queue`
RECURSIVE cascade_while(_, _, _)
cascade_while(g, cascade, queue) ==
    IF queue = <<>> THEN cascade
    ELSE LET popped == Head(queue)
             r == IF popped \in DOMAIN g.failure_modes
                  THEN cascade_for(cascade, Tail(queue),
                                   g.failure_modes[popped].propagates_to)
                  ELSE [cascade |-> cascade, queue |-> Tail(queue)]
         IN  cascade_while(g, r.cascade, r.queue)

\* mutant: the source is not put on the queue
_compute_failure_cascade_empty_queue(failure_id, g) ==
    cascade_while(g, <<failure_id>>, <<>>)

_compute_failure_cascade(failure_id, g) ==
    cascade_while(g, <<failure_id>>, <<failure_id>>)

\* _compute_cascade_probability; probabilities are in tenths
_compute_cascade_probability(source_id, cascade, g) ==
    LET probability == IF source_id \in DOMAIN g.failure_modes
                       THEN g.failure_modes[source_id].probability ELSE 10
        internal == SelectSeq(g.failure_branches,
                        LAMBDA b : b.source \in Range(cascade)
                                       /\ b.target \in Range(cascade))
        propagation_probs ==
            [i \in DOMAIN internal |-> internal[i].propagation_probability]
    IN  IF propagation_probs # <<>>
        THEN Fraction(probability * sum(propagation_probs),
                      10 * 10 * Len(propagation_probs))
        ELSE Fraction(probability, 10)

\* analyze_cascading_failures: the ids it reports a scenario for, and the
\* cascade_probability of the scenario of one of them
initiating_failures(g) ==
    {failure_id \in DOMAIN g.failure_modes :
        Len(_compute_failure_cascade(failure_id, g)) > 1}

cascade_probability(failure_id, g) ==
    _compute_cascade_probability(
        failure_id, _compute_failure_cascade(failure_id, g), g)

NextCascade ==
    /\ nops < MaxCascadeOps
    /\ UNCHANGED <<wvars, tsvars, rvars>>
    /\ \/ \E id \in FmIds \ DOMAIN failure_modes, p \in Probabilities :
              AddFailureMode(FailureMode(id, 5, p, 0, <<>>))
       \* as the mappers and from_dict call it: both ends are FailureModes
       \/ \E a, b \in DOMAIN failure_modes, q \in Probabilities :
              AddFailureBranch(FailurePropagationBranch(a, b, q))

SpecCascade == InitGraph /\ [][NextCascade]_vars

\* C9: with all probabilities in [0,1], a branch added from a member of a
\* source's cascade to a FailureMode outside it never raises the
\* cascade_probability reported for that source
C9_CascadeProbabilityNonIncreasing ==
    [][\A source \in initiating_failures(G) :
           LET cascade == Range(_compute_failure_cascade(source, G))
           IN  (/\ last'.op = "add_failure_branch"
                /\ last'.outcome = "done"
                /\ last'.args[1] \in cascade
                /\ last'.args[2] \in DOMAIN failure_modes \ cascade)
               => LessEq(cascade_probability(source, Gp),
                         cascade_probability(source, G))]_vars


\* ------------------------------------------------------ propagation paths
MaxPathFm == 6
MaxFanOut == 2
MaxDepthArg == 3

PathFmIds == 1..MaxPathFm

\* _find_reachable_failures, dfs(current_id, depth) and its for loop; st holds
\* the two locals the closure shares, reachable and visited
RECURSIVE dfs(_, _, _, _, _)
RECURSIVE dfs_for(_, _, _, _, _)
dfs(g, max_depth_arg, st, current_id, depth) ==
    IF depth > max_depth_arg \/ current_id \in st.visited THEN st
    ELSE LET st1 == [st EXCEPT !.visited = @ \cup {current_id}]
         IN  IF current_id \in DOMAIN g.failure_modes
             THEN dfs_for(g, max_depth_arg, st1,
                          g.failure_modes[current_id].propagates_to, depth)
             ELSE st1

dfs_for(g, max_depth_arg, st, propagates_to, depth) ==
    IF propagates_to = <<>> THEN st
    ELSE LET next_id == Head(propagates_to)
         IN  IF next_id \notin st.visited
             THEN dfs_for(g, max_depth_arg,
                          dfs(g, max_depth_arg,
                              [st EXCEPT !.reachable = Append(@, next_id)],
                              next_id, depth + 1),
                          Tail(propagates_to), depth)
             ELSE dfs_for(g, max_depth_arg, st, Tail(propagates_to), depth)

_find_reachable_failures(failure_id, g, max_depth_arg) ==
    dfs(g, max_depth_arg, [reachable |-> <<>>, visited |-> {}],
        failure_id, 0).reachable

\* The ids one propagates_to hop away from a member of S
propagates_to_of(g, S) ==
    UNION {Range(g.failure_modes[x].propagates_to) :
               x \in S \cap DOMAIN g.failure_modes}

\* The ids that 1 .. k propagates_to hops lead to from a member of S
RECURSIVE within_hops(_, _, _)
within_hops(g, S, k) ==
    IF k = 0 THEN {}
    ELSE propagates_to_of(g, S) \cup within_hops(g, propagates_to_of(g, S), k - 1)

\* A mapper's output: the FailureModes first, then the propagation branches
\* between them, each once and grouped by source in ascending order; the
\* first FailureMode propagates to at most MaxFanOut others, every other one
\* to at most one
NextPaths ==
    /\ UNCHANGED <<wvars, tsvars, rvars>>
    /\ \/ \E id \in PathFmIds :
              /\ id = Cardinality(DOMAIN failure_modes) + 1
              /\ failure_branches = <<>>
              /\ AddFailureMode(FailureMode(id, 5, 5, 0, <<>>))
       \/ \E a, b \in DOMAIN failure_modes :
              /\ Len(failure_modes[a].propagates_to)
                     < (IF a = 1 THEN MaxFanOut ELSE 1)
              /\ b \notin Range(failure_modes[a].propagates_to)
              /\ failure_branches # <<>>
                     => failure_branches[Len(failure_branches)].source <= a
              /\ AddFailureBranch(FailurePropagationBranch(a, b, 5))

SpecPaths == InitGraph /\ [][NextPaths]_vars

\* C10: for every source and every max_depth, reachable_failures holds every
\* FailureMode other than the source that 1 to max_depth hops along the
\* propagates_to lists lead to
C10_ReachableComplete ==
    \A source \in DOMAIN failure_modes, d \in 0..MaxDepthArg :
        (within_hops(G, {source}, d) \cap DOMAIN failure_modes) \ {source}
            \subseteq Range(_find_reachable_failures(source, G, d))


\* ------------------------------------------------------------ criticality
MaxCritId == 3
MaxCritOps == 4

CritIds == 1..MaxCritId

\* Sum and product of the values of a function with a finite domain
RECURSIVE SumOf(_)
SumOf(f) ==
    IF DOMAIN f = {} THEN 0
    ELSE LET x == CHOOSE x \in DOMAIN f : TRUE
         IN  f[x] + SumOf([y \in DOMAIN f \ {x} |-> f[y]])

RECURSIVE ProductOf(_)
ProductOf(f) ==
    IF DOMAIN f = {} THEN 1
    ELSE LET x == CHOOSE x \in DOMAIN f : TRUE
         IN  f[x] * ProductOf([y \in DOMAIN f \ {x} |-> f[y]])

\* graph.graph.neighbors(u): the successors of u in the index
neighbors(g, u) == {e[2] : e \in {x \in BagToSet(g.edges) : x[1] = u}}

\* The number of walks of k edges from s to t in the index
RECURSIVE walks(_, _, _, _)
walks(g, s, t, k) ==
    IF k = 0 THEN (IF s = t THEN 1 ELSE 0)
    ELSE SumOf([u \in neighbors(g, s) |-> walks(g, u, t, k - 1)])

\* Shortest-path length from s to t; Cardinality(g.nodes) when there is none
distance(g, s, t) ==
    LET n == Cardinality(g.nodes)
        ks == {k \in 0..(n - 1) : walks(g, s, t, k) > 0}
    IN  IF ks = {} THEN n ELSE CHOOSE k \in ks : \A j \in ks : k <= j

\* sigma_st: the number of shortest paths from s to t (0 when there is none)
sigma(g, s, t) ==
    IF distance(g, s, t) = Cardinality(g.nodes) THEN 0
    ELSE walks(g, s, t, distance(g, s, t))

\* sigma_st(v): the number of them that pass through v
sigma_through(g, s, t, v) ==
    IF sigma(g, s, t) > 0 /\ sigma(g, s, v) > 0 /\ sigma(g, v, t) > 0
       /\ distance(g, s, v) + distance(g, v, t) = distance(g, s, t)
    THEN sigma(g, s, v) * sigma(g, v, t) ELSE 0

\* The pairs (s, t) betweenness sums over for v
pairs(g, v) ==
    {st \in (g.nodes \ {v}) \X (g.nodes \ {v}) :
        st[1] # st[2] /\ sigma(g, st[1], st[2]) > 0}

\* nx.betweenness_centrality(graph.graph), normalized, without endpoints, as
\* the fraction betweenness_num(v) / betweenness_den: the sum over s, t of
\* sigma_st(v) / sigma_st, scaled by 1 / ((n - 1)(n - 2)) when n > 2
sigma_product(g) ==
    ProductOf([st \in {x \in g.nodes \X g.nodes :
                          x[1] # x[2] /\ sigma(g, x[1], x[2]) > 0} |->
                  sigma(g, st[1], st[2])])

betweenness_den(g) ==
    LET n == Cardinality(g.nodes)
    IN  sigma_product(g) * (IF n > 2 THEN (n - 1) * (n - 2) ELSE 1)

betweenness_num(g, v) ==
    SumOf([st \in pairs(g, v) |->
              sigma_through(g, st[1], st[2], v)
                  * (sigma_product(g) \div sigma(g, st[1], st[2]))])

\* Function.get_descendants; raised: the recursion exceeded the limit
RECURSIVE get_descendants(_, _, _)
RECURSIVE descendants_for(_, _, _, _)
get_descendants(fns, func, frames) ==
    IF frames = 0 THEN [raised |-> TRUE, value |-> <<>>]
    ELSE descendants_for(fns, fns[func].children, <<>>, frames)

descendants_for(fns, children, descendants, frames) ==
    IF children = <<>> THEN [raised |-> FALSE, value |-> descendants]
    ELSE LET child == Head(children)
             r == get_descendants(fns, child, frames - 1)
         IN  IF r.raised THEN r
             ELSE descendants_for(fns, Tail(children),
                                  (descendants \o <<child>>) \o r.value, frames)

\* _analyze_function_dependencies: the Functions the form's score counts
performed(g, form_id) == DOMAIN g.functions \cap neighbors(g, form_id)

\* _analyze_function_dependencies raises iff a get_descendants call does
function_flows_raises(g) ==
    \E form_id \in DOMAIN g.form_elements :
        \E func_id \in performed(g, form_id) :
            get_descendants(g.functions, func_id, RecursionLimit).raised

\* _analyze_function_dependencies, scores[form_id] in tenths:
\* 1.0 + len(descendants) * 0.1 for each performed Function
function_flows(g, form_id) ==
    SumOf([func_id \in performed(g, form_id) |->
              10 + Len(get_descendants(g.functions, func_id,
                                       RecursionLimit).value)])

\* _compute_failure_propagation_impact, scores[form_id] in tenths (severity
\* times probability, the probability being in tenths)
failure_impacts(g, form_id) ==
    SumOf([m \in {x \in DOMAIN g.failure_modes :
                     form_id \in Range(g.failure_modes[x].affects_forms)} |->
              g.failure_modes[m].severity * g.failure_modes[m].probability])

\* compute_criticality, the combined score of a form before normalization,
\* as a fraction with the denominator 100 * betweenness_den(g):
\* centrality * 0.3 + function_flows * 0.4 + failure_impacts * 0.3
score_num(g, form_id) ==
    30 * betweenness_num(g, form_id)
        + (4 * function_flows(g, form_id) + 3 * failure_impacts(g, form_id))
              * betweenness_den(g)


\* max(criticality_scores.values()), as a numerator over 100 * betweenness_den
max_score(g) ==
    CHOOSE x \in {score_num(g, f) : f \in DOMAIN g.form_elements} :
        \A f \in DOMAIN g.form_elements : score_num(g, f) <= x

\* mutant: no entry at all when the maximum is zero
compute_criticality_empty_on_zero(g) ==
    IF DOMAIN g.form_elements = {}
    THEN [raised |-> FALSE, scores |-> EmptyMap]
    ELSE IF function_flows_raises(g)
    THEN [raised |-> TRUE, scores |-> EmptyMap]
    ELSE [raised |-> FALSE,
          scores |-> IF max_score(g) > 0
                     THEN [f \in DOMAIN g.form_elements |->
                              Fraction(score_num(g, f), max_score(g))]
                     ELSE EmptyMap]

\* compute_criticality: raised, or the returned map of form id -> score; a
\* score is the fraction score / max_score when max_score > 0, else the
\* combined score itself
compute_criticality(g) ==
    IF DOMAIN g.form_elements = {}
    THEN [raised |-> FALSE, scores |-> EmptyMap]
    ELSE IF function_flows_raises(g)
    THEN [raised |-> TRUE, scores |-> EmptyMap]
    ELSE [raised |-> FALSE,
          scores |-> [f \in DOMAIN g.form_elements |->
                         IF max_score(g) > 0
                         THEN Fraction(score_num(g, f), max_score(g))
                         ELSE Fraction(score_num(g, f),
                                       100 * betweenness_den(g))]]

\* The severities of the FailureModes added: none, high
Severities == {0, 8}

NextCrit ==
    /\ nops < MaxCritOps
    /\ UNCHANGED <<wvars, tsvars, rvars>>
    /\ \/ \E id \in CritIds \ DOMAIN form_elements : AddFormElement(id)
       \/ \E id \in CritIds \ DOMAIN functions : AddFunction(id)
       \/ \E id \in CritIds \ DOMAIN failure_modes, severity \in Severities,
             af \in {<<>>} \cup {<<c>> : c \in CritIds} :
              AddFailureMode(FailureMode(id, severity, 5, 0, af))
       \/ \E a \in DOMAIN form_elements, b \in DOMAIN functions :
              LinkFormToFunction(a, b)
       \/ \E a \in DOMAIN functions, b \in DOMAIN failure_modes :
              LinkFunctionToFailure(a, b)
       \/ \E a \in DOMAIN form_elements, b \in DOMAIN failure_modes :
              LinkFormToFailure(a, b)
       \/ \E a, b \in CritIds : AddFunctionBranch(FunctionBranch(a, b, 9, 1))
       \/ \E a, b \in CritIds : AddChild(a, b)

SpecCrit == InitGraph /\ [][NextCrit]_vars

\* C1 as stated: whenever there are Form elements and the maximum combined
\* score is zero, compute_criticality returns an empty map
C1_EmptyMapWhenMaxZero ==
    (/\ DOMAIN form_elements # {}
     /\ ~compute_criticality(G).raised
     /\ max_score(G) = 0)
        => compute_criticality(G).scores = EmptyMap

\* C1, amended: with Form elements, no edges and no FailureModes the maximum
\* combined score is 0 and compute_criticality returns a map that gives every
\* Form element the score 0; whenever it returns with a maximum of zero the
\* map gives every Form element its combined score, which is then 0; the
\* map is empty exactly when there is no Form element
C1_ZeroMapWhenMaxZero ==
    LET r == compute_criticality(G)
        zeros == /\ DOMAIN r.scores = DOMAIN form_elements
                 /\ \A f \in DOMAIN r.scores : r.scores[f].num = 0
    IN  /\ DOMAIN form_elements = {} => ~r.raised /\ r.scores = EmptyMap
        /\ (DOMAIN form_elements # {} /\ ~r.raised)
               => /\ r.scores # EmptyMap
                  /\ max_score(G) = 0 => zeros
        /\ (DOMAIN form_elements # {} /\ edges = EmptyBag
                /\ DOMAIN failure_modes = {})
               => ~r.raised /\ max_score(G) = 0 /\ zeros

\* C1 witness: Form elements, Functions and a FailureMode of severity 0 that
\* affects a Form, and the map returned holds a zero for every Form element
C1_Witness ==
    /\ DOMAIN form_elements # {}
    /\ \E m \in DOMAIN failure_modes :
           \E f \in DOMAIN form_elements :
               f \in Range(failure_modes[m].affects_forms)
    /\ ~compute_criticality(G).raised
    /\ max_score(G) = 0
    /\ DOMAIN compute_criticality(G).scores = DOMAIN form_elements
    /\ \A f \in DOMAIN form_elements : compute_criticality(G).scores[f].num = 0


\* ------------------------------------------- propagation paths, continued
\* _find_reachable_failures, max_depth: int = 5
DefaultMaxDepth == 5

\* C11: for every source and every max_depth, every id in
\* reachable_failures is at most max_depth propagates_to hops from the source
C11_ReachableWithinDepth ==
    \A source \in DOMAIN failure_modes, d \in 0..MaxDepthArg :
        Range(_find_reachable_failures(source, G, d))
            \subseteq within_hops(G, {source}, d)

\* _compute_propagation_probability, as a fraction; probabilities in tenths
_compute_propagation_probability(source_id, targets, g) ==
    IF targets = <<>> THEN Fraction(0, 1)
    ELSE LET matching == SelectSeq(g.failure_branches,
                             LAMBDA b : b.source = source_id
                                            /\ b.target \in Range(targets))
             total_prob ==
                 sum([i \in DOMAIN matching |->
                         matching[i].propagation_probability])
         IN  IF total_prob <= 10 * Len(targets)
             THEN Fraction(total_prob, 10 * Len(targets))
             ELSE Fraction(1, 1)

\* compute_propagation_paths: the sources it reports a path for, and the
\* entry of one of them
path_sources(g) ==
    {failure_id \in DOMAIN g.failure_modes :
        _find_reachable_failures(failure_id, g, DefaultMaxDepth) # <<>>}

propagation_path(failure_id, g) ==
    LET reachable == _find_reachable_failures(failure_id, g, DefaultMaxDepth)
    IN  [source_failure |-> failure_id,
         reachable_failures |-> reachable,
         propagation_probability |->
             _compute_propagation_probability(failure_id, reachable, g),
         path_length |-> Len(reachable)]

\* The branches that go from source to a reached target
branches_to_reached(source, g) ==
    SelectSeq(g.failure_branches,
        LAMBDA b : b.source = source
            /\ b.target \in
                   Range(_find_reachable_failures(source, g, DefaultMaxDepth)))

\* C12: the propagation_probability reported for a source is the mean of the
\* propagation probabilities of the branches from the source to a reached
\* target, clamped to [0,1]
C12_PropagationProbabilityIsMean ==
    \A source \in path_sources(G) :
        LET bs == branches_to_reached(source, G)
            total == sum([i \in DOMAIN bs |-> bs[i].propagation_probability])
            p == propagation_path(source, G).propagation_probability
        IN  /\ bs # <<>>
            /\ IF total <= 10 * Len(bs)
               THEN p.num * (10 * Len(bs)) = total * p.den
               ELSE p.num = p.den


\* ----------------------------------------------- cascades, restored lists
MaxListLen == 2

\* The lists of at most n ids
RECURSIVE SeqsUpTo(_, _)
SeqsUpTo(S, n) ==
    IF n = 0 THEN {<<>>}
    ELSE LET shorter == SeqsUpTo(S, n - 1)
         IN  shorter \cup {Append(q, x) : q \in shorter, x \in S}

\* _compute_cascade_severity, as a fraction
_compute_cascade_severity(cascade, g) ==
    LET members == SelectSeq(cascade, LAMBDA id : id \in DOMAIN g.failure_modes)
        total_severity ==
            sum([i \in DOMAIN members |-> g.failure_modes[members[i]].severity])
    IN  IF cascade # <<>> THEN Fraction(total_severity, Len(cascade))
        ELSE Fraction(0, 1)

\* analyze_cascading_failures: the scenario appended for failure_id
cascading_scenario(failure_id, g) ==
    LET cascade == _compute_failure_cascade(failure_id, g)
    IN  [initiating_failure |-> failure_id,
         cascade_size |-> Len(cascade),
         cascade_failures |-> cascade,
         cascade_probability |->
             _compute_cascade_probability(failure_id, cascade, g),
         severity |-> _compute_cascade_severity(cascade, g)]

\* graph.add_failure_mode(FailureMode.from_dict(d)): FailureModes that come
\* with their propagates_to lists, which may name any id, any id twice, the
\* FailureMode itself and ids that are no FailureMode
NextRestored ==
    /\ UNCHANGED <<wvars, tsvars, rvars>>
    /\ \E id \in FmIds, propagates_to \in SeqsUpTo(FmIds, MaxListLen) :
           /\ id = Cardinality(DOMAIN failure_modes) + 1
           /\ AddFailureMode([FailureMode(id, 5, 5, 0, <<>>)
                                  EXCEPT !.propagates_to = propagates_to])

SpecRestored == InitGraph /\ [][NextRestored]_vars

\* C13: on any lists, with cycles, self-loops and repeated ids,
\* _compute_failure_cascade returns the source first, then every id that one
\* or more propagates_to hops lead to, each id once and no other; a scenario
\* is reported exactly when the list has more than one member, and its
\* cascade_size is the length of the list
C13_CascadeExact ==
    \A source \in DOMAIN failure_modes :
        LET cascade == _compute_failure_cascade(source, G)
            reached == within_hops(G, {source}, MaxFm)
        IN  /\ cascade[1] = source
            /\ Range(cascade) = {source} \cup reached
            /\ Len(cascade) = Cardinality(Range(cascade))
            /\ source \in initiating_failures(G) <=> reached \ {source} # {}
            /\ cascading_scenario(source, G).cascade_size
                   = Cardinality({source} \cup reached)

\* C13 witness: a list with a repeated id, a self-loop and a two-cycle, and
\* a cascade that reaches every FailureMode
C13_Witness ==
    /\ \E m \in DOMAIN failure_modes, x \in FmIds :
           Count(failure_modes[m].propagates_to, x) >= 2
    /\ \E m \in DOMAIN failure_modes : m \in Range(failure_modes[m].propagates_to)
    /\ \E a, b \in DOMAIN failure_modes :
           /\ a # b
           /\ b \in Range(failure_modes[a].propagates_to)
           /\ a \in Range(failure_modes[b].propagates_to)
    /\ \E source \in DOMAIN failure_modes :
           /\ Len(_compute_failure_cascade(source, G)) = MaxFm
           /\ source \in initiating_failures(G)


\* ------------------------------------------------------------ risk scores
\* mutant: the detectability is not looked at
risk_score_no_discount(failure) ==
    Fraction(failure.severity * failure.probability, 10)

\* compute_risk_priority, risk_score of one FailureMode as a fraction:
\* severity * probability * detectability_factor, the probability in tenths
\* and the factor 1 - detectability / 10 only when detectability > 0
risk_score(failure) ==
    Fraction(failure.severity * failure.probability
                 * (IF failure.detectability > 0
                    THEN 10 - failure.detectability ELSE 10),
             100)

\* graph.graph.predecessors(v)
predecessors(g, v) == {e[1] : e \in {x \in BagToSet(g.edges) : x[2] = v}}

\* mutant: only the declared functions
trace_function_impact_declared(failure, g) ==
    Range(failure.affects_functions)

\* trace_function_impact, as the set the returned list is made from
trace_function_impact(failure, g) ==
    Range(failure.affects_functions)
        \cup UNION {neighbors(g, form_id) \cap DOMAIN g.functions :
                        form_id \in Range(failure.affects_forms) \cap g.nodes}

\* trace_form_impact, as the set the returned list is made from
trace_form_impact(failure, g) ==
    Range(failure.affects_forms)
        \cup UNION {predecessors(g, func_id) \cap DOMAIN g.form_elements :
                        func_id \in Range(failure.affects_functions) \cap g.nodes}

\* x < y on fractions
Less(x, y) == x.num * y.den < y.num * x.den

\* list.sort(key=lambda x: x[key], reverse=True), one insertion: the entry
\* goes behind every entry whose key is not smaller (the sort is stable)
RECURSIVE insert_reverse(_, _, _)
insert_reverse(sorted, entry, key) ==
    IF sorted = <<>> THEN <<entry>>
    ELSE IF Less(Head(sorted)[key], entry[key])
    THEN <<entry>> \o sorted
    ELSE <<Head(sorted)>> \o insert_reverse(Tail(sorted), entry, key)

RECURSIVE sort_reverse(_, _, _)
sort_reverse(sorted, entries, key) ==
    IF entries = <<>> THEN sorted
    ELSE sort_reverse(insert_reverse(sorted, Head(entries), key),
                      Tail(entries), key)

\* graph.failure_modes.items(): the FailureModes in the order of the keys of
\* the dict, which is ascending where they are added in ascending order
failure_items(g) ==
    [i \in DOMAIN SortedSeq(DOMAIN g.failure_modes) |->
        g.failure_modes[SortedSeq(DOMAIN g.failure_modes)[i]]]

\* compute_risk_priority
compute_risk_priority(g) ==
    sort_reverse(<<>>,
        [i \in DOMAIN failure_items(g) |->
            LET failure == failure_items(g)[i]
            IN  [failure_id |-> failure.id,
                 risk_score |-> risk_score(failure),
                 severity |-> failure.severity,
                 probability |-> failure.probability,
                 detectability |-> failure.detectability,
                 functions_affected |-> trace_function_impact(failure, g),
                 forms_affected |-> trace_form_impact(failure, g),
                 propagation_count |-> Len(failure.propagates_to),
                 mitigation_count |-> Len(failure.mitigated_by)]],
        "risk_score")

\* identify_critical_failures, the entry of one FailureMode; risk_score is
\* severity * probability, criticality_score is
\* risk_score * (1 + impact_count * 0.1 + propagation_count * 0.2)
critical_entry(failure) ==
    LET impact_count == Len(failure.affects_functions) + Len(failure.affects_forms)
        propagation_count == Len(failure.propagates_to)
    IN  [failure_id |-> failure.id,
         risk_score |-> Fraction(failure.severity * failure.probability, 10),
         impact_count |-> impact_count,
         propagation_count |-> propagation_count,
         severity |-> failure.severity,
         probability |-> failure.probability,
         criticality_score |->
             Fraction(failure.severity * failure.probability
                          * (10 + impact_count + 2 * propagation_count),
                      100)]

\* identify_critical_failures(graph, threshold), the threshold a fraction
identify_critical_failures(g, threshold) ==
    sort_reverse(<<>>,
        SelectSeq([i \in DOMAIN failure_items(g) |->
                      critical_entry(failure_items(g)[i])],
                  LAMBDA e : \/ Less(threshold, e.risk_score)
                             \/ e.impact_count > 5
                             \/ e.propagation_count > 3),
        "criticality_score")

\* identify_critical_failures, threshold: float = 0.5
DefaultThreshold == Fraction(5, 10)


MaxRiskFm == 2

RiskFmIds == 1..MaxRiskFm

\* The FailureModes under analysis: severity 1 or 8, probability 0.5 or 1.0,
\* detectability 0 or 5, five or six affected entities or none, three or
\* four propagation targets or none
RiskFailureModes(id) ==
    {[FailureMode(id, severity, probability, detectability, affected[2])
          EXCEPT !.affects_functions = affected[1],
                 !.propagates_to = propagates_to] :
        severity \in {1, 8}, probability \in Probabilities,
        detectability \in {0, 5},
        affected \in {<<<<>>, <<>>>>, <<<<1, 2, 3>>, <<1, 2>>>>,
                      <<<<1, 2, 3>>, <<1, 2, 3>>>>},
        propagates_to \in {<<>>, <<1, 2, 3>>, <<1, 2, 3, 4>>}}

NextRisk ==
    /\ UNCHANGED <<wvars, tsvars, rvars>>
    /\ \E id \in RiskFmIds :
           /\ id = Cardinality(DOMAIN failure_modes) + 1
           /\ \E failure \in RiskFailureModes(id) : AddFailureMode(failure)

SpecRisk == InitGraph /\ [][NextRisk]_vars

\* x = y on fractions
Equal(x, y) == x.num * y.den = y.num * x.den

\* C14: the risk_score identify_critical_failures reports for a FailureMode
\* is the one compute_risk_priority reports for it,
\* severity * probability * (1 - detectability / 10)
C14_OneRiskScore ==
    \A i \in DOMAIN identify_critical_failures(G, DefaultThreshold) :
        \A j \in DOMAIN compute_risk_priority(G) :
            LET e == identify_critical_failures(G, DefaultThreshold)[i]
                r == compute_risk_priority(G)[j]
            IN  e.failure_id = r.failure_id => Equal(e.risk_score, r.risk_score)

\* The entries of identify_critical_failures are in non-increasing
\* criticality_score order
CriticalSorted ==
    LET es == identify_critical_failures(G, DefaultThreshold)
    IN  \A i, j \in DOMAIN es :
            i < j => ~Less(es[i].criticality_score, es[j].criticality_score)

\* C15: a FailureMode is returned iff its risk score
\* severity * probability * (1 - detectability / 10) > 0.5 or
\* impact_count > 5 or propagation_count > 3; its criticality_score is
\* risk score * (1 + 0.1 * impact_count + 0.2 * propagation_count); the
\* entries are in non-increasing criticality_score order
C15_CriticalIff ==
    LET es == identify_critical_failures(G, DefaultThreshold)
    IN  /\ \A m \in DOMAIN failure_modes :
               LET failure == failure_modes[m]
                   impact_count == Len(failure.affects_functions)
                                       + Len(failure.affects_forms)
                   propagation_count == Len(failure.propagates_to)
                   returned == {i \in DOMAIN es : es[i].failure_id = m}
               IN  /\ returned # {}
                       <=> \/ Less(DefaultThreshold, risk_score(failure))
                           \/ impact_count > 5
                           \/ propagation_count > 3
                   /\ \A i \in returned :
                          Equal(es[i].criticality_score,
                                Fraction(risk_score(failure).num
                                             * (10 + impact_count
                                                   + 2 * propagation_count),
                                         risk_score(failure).den * 10))
        /\ CriticalSorted

\* C16: compute_risk_priority returns one entry per FailureMode, with
\* risk_score = severity * probability * (1 - detectability / 10), which is
\* severity * probability when detectability is 0, in non-increasing
\* risk_score order
C16_RiskPriority ==
    LET rs == compute_risk_priority(G)
    IN  /\ Len(rs) = Cardinality(DOMAIN failure_modes)
        /\ {rs[i].failure_id : i \in DOMAIN rs} = DOMAIN failure_modes
        /\ \A i \in DOMAIN rs :
               LET failure == failure_modes[rs[i].failure_id]
               IN  /\ Equal(rs[i].risk_score,
                            Fraction(failure.severity * failure.probability
                                         * (10 - failure.detectability),
                                     100))
                   /\ failure.detectability = 0
                          => Equal(rs[i].risk_score,
                                   Fraction(failure.severity
                                                * failure.probability, 10))
        /\ \A i, j \in DOMAIN rs :
               i < j => ~Less(rs[i].risk_score, rs[j].risk_score)

\* C16 witness: severity 8, probability 0.5, detectability 5 is reported
\* with risk_score 2.0, ahead of a FailureMode of a lower risk_score that
\* was added before it
C16_Witness ==
    LET rs == compute_risk_priority(G)
    IN  /\ Len(rs) = 2
        /\ rs[1].failure_id = 2
        /\ rs[1].severity = 8 /\ rs[1].probability = 5
        /\ rs[1].detectability = 5
        /\ Equal(rs[1].risk_score, Fraction(2, 1))
        /\ Less(rs[2].risk_score, rs[1].risk_score)


\* ---------------------------------------------------------- impact tracing
MaxImpactOps == 6

NextImpact ==
    /\ nops < MaxImpactOps
    /\ UNCHANGED <<wvars, tsvars, rvars>>
    /\ \/ \E id \in Ids \ DOMAIN form_elements : AddFormElement(id)
       \/ \E id \in Ids \ DOMAIN functions : AddFunction(id)
       \/ \E failure \in NewFailureModes :
              /\ failure.id \notin DOMAIN failure_modes
              /\ AddFailureMode(failure)
       \/ \E a \in DOMAIN form_elements, b \in DOMAIN functions :
              LinkFormToFunction(a, b)
       \/ \E a \in DOMAIN functions, b \in DOMAIN failure_modes :
              LinkFunctionToFailure(a, b)
       \/ \E a \in DOMAIN form_elements, b \in DOMAIN failure_modes :
              LinkFormToFailure(a, b)
       \/ \E a, b \in DOMAIN functions :
              /\ a # b
              /\ AddFunctionBranch(FunctionBranch(a, b, 9, 1))

SpecImpact == InitGraph /\ [][NextImpact]_vars

\* u -> v is an edge of the graph index
HasEdge(u, v) == \E e \in BagToSet(edges) : e[1] = u /\ e[2] = v

\* C17: for every FailureMode M, functions_affected is M.affects_functions
\* united with the Functions that an edge of the index leads to from an id in
\* M.affects_forms, and forms_affected is M.affects_forms united with the
\* Forms from which an edge leads to an id in M.affects_functions; nothing
\* further away is added
C17_OneHopImpact ==
    \A i \in DOMAIN compute_risk_priority(G) :
        LET r == compute_risk_priority(G)[i]
            M == failure_modes[r.failure_id]
        IN  /\ r.functions_affected
                   = Range(M.affects_functions)
                       \cup {f \in DOMAIN functions :
                                \E a \in Range(M.affects_forms) : HasEdge(a, f)}
            /\ r.forms_affected
                   = Range(M.affects_forms)
                       \cup {a \in DOMAIN form_elements :
                                \E f \in Range(M.affects_functions) : HasEdge(a, f)}

\* C17 witness: Form 1, Function 2 and FailureMode 1 were added, then
\* link_form_to_function(1, 2) and link_function_to_failure(2, 1) called;
\* functions_affected is [2] and forms_affected contains 1
C17_Witness ==
    /\ DOMAIN form_elements = {1}
    /\ DOMAIN functions = {2}
    /\ DOMAIN failure_modes = {1}
    /\ HasEdge(1, 2)
    /\ last.op = "link_function_to_failure" /\ last.args = <<2, 1>>
    /\ failure_modes[1].affects_forms = <<>>
    /\ compute_risk_priority(G)[1].functions_affected = {2}
    /\ 1 \in compute_risk_priority(G)[1].forms_affected


\* ----------------------------------------------------- function redundancy
MaxOutputLen == 2

\* The names of the outputs, as numbers so that sorted() can compare them
OutputNames == {1, 2}

\* sorted(list), one insertion and the whole
RECURSIVE insert_sorted(_, _)
insert_sorted(sorted, x) ==
    IF sorted = <<>> THEN <<x>>
    ELSE IF x < Head(sorted) THEN <<x>> \o sorted
    ELSE <<Head(sorted)>> \o insert_sorted(Tail(sorted), x)

RECURSIVE sorted_list(_)
sorted_list(s) ==
    IF s = <<>> THEN <<>>
    ELSE insert_sorted(sorted_list(Tail(s)), Head(s))

\* mutant: the outputs are not sorted
output_key_unsorted(func) == func.outputs

\* compute_function_redundancy, output_key = tuple(sorted(func.outputs))
output_key(func) == sorted_list(func.outputs)

\* compute_function_redundancy, output_groups: its keys in the order they
\* were inserted, and the list of function ids under a key
RECURSIVE first_occurrences(_, _)
first_occurrences(seen, s) ==
    IF s = <<>> THEN seen
    ELSE first_occurrences(AppendIfAbsent(seen, Head(s)), Tail(s))

output_group_keys(g) ==
    first_occurrences(<<>>,
        [i \in DOMAIN g.function_keys |->
            output_key(g.functions[g.function_keys[i]])])

output_group(g, key) ==
    SelectSeq(g.function_keys,
              LAMBDA func_id : output_key(g.functions[func_id]) = key)

compute_function_redundancy(g) ==
    LET keys == output_group_keys(g)
        redundant_keys ==
            SelectSeq(keys, LAMBDA k : Len(output_group(g, k)) > 1 /\ k # <<>>)
        single_ids ==
            SelectSeq(g.function_keys,
                LAMBDA func_id :
                    /\ output_key(g.functions[func_id]) # <<>>
                    /\ Len(output_group(g, output_key(g.functions[func_id]))) = 1)
        redundant_functions ==
            sum([i \in DOMAIN keys |->
                    IF Len(output_group(g, keys[i])) > 1
                    THEN Len(output_group(g, keys[i])) ELSE 0])
    IN  [redundant_paths |->
             [i \in DOMAIN redundant_keys |->
                 [outputs |-> redundant_keys[i],
                  functions |-> output_group(g, redundant_keys[i]),
                  redundancy_level |-> Len(output_group(g, redundant_keys[i]))]],
         single_points_of_failure |->
             [i \in DOMAIN single_ids |->
                 [function_id |-> single_ids[i],
                  outputs |-> g.functions[single_ids[i]].outputs]],
         redundancy_score |->
             IF g.function_keys = <<>> THEN Fraction(0, 1)
             ELSE Fraction(redundant_functions, Len(g.function_keys))]

\* graph.add_function(function), the Function carrying its outputs
AddFunctionWithOutputs(function) ==
    /\ SetGraph(add_function(G, function))
    /\ Called("add_function", <<function.id>>, "done")
    /\ UNCHANGED overwritten

NextRedundancy ==
    /\ UNCHANGED <<wvars, tsvars, rvars>>
    /\ \E id \in FnIds, outputs \in SeqsUpTo(OutputNames, MaxOutputLen) :
           /\ id = Cardinality(DOMAIN functions) + 1
           /\ AddFunctionWithOutputs(Function(id, outputs))

SpecRedundancy == InitGraph /\ [][NextRedundancy]_vars


\* The Functions with outputs, and those of them whose outputs are the same
\* as f's when sorted (the same names, each the same number of times)
with_outputs == {f \in DOMAIN functions : functions[f].outputs # <<>>}

same_outputs(f) ==
    {h \in with_outputs :
        BagOfSeq(functions[h].outputs) = BagOfSeq(functions[f].outputs)}

\* C18: redundant_paths lists exactly the groups of two or more Functions
\* whose sorted non-empty output lists are identical, each group once and
\* each of its Functions once; single_points_of_failure lists exactly the
\* Functions whose non-empty output list no other Function shares; no
\* Function is in both; and when every Function has outputs the score is
\* the number of Functions in groups of more than one over the number of
\* Functions.
C18_RedundancyPartition ==
    LET result == compute_function_redundancy(G)
        paths == result.redundant_paths
        singles == result.single_points_of_failure
        single_set == {singles[i].function_id : i \in DOMAIN singles}
        shared == {f \in with_outputs : Cardinality(same_outputs(f)) >= 2}
    IN  /\ {Range(paths[i].functions) : i \in DOMAIN paths}
               = {same_outputs(f) : f \in shared}
        /\ Len(paths) = Cardinality({same_outputs(f) : f \in shared})
        /\ \A i \in DOMAIN paths :
               /\ Len(paths[i].functions) = Cardinality(Range(paths[i].functions))
               /\ paths[i].redundancy_level = Len(paths[i].functions)
               /\ paths[i].outputs = sorted_list(paths[i].outputs)
               /\ \A f \in Range(paths[i].functions) :
                      BagOfSeq(functions[f].outputs) = BagOfSeq(paths[i].outputs)
        /\ single_set = with_outputs \ shared
        /\ Len(singles) = Cardinality(single_set)
        /\ \A i \in DOMAIN paths : Range(paths[i].functions) \cap single_set = {}
        /\ (DOMAIN functions # {} /\ with_outputs = DOMAIN functions)
               => Equal(result.redundancy_score,
                        Fraction(Cardinality(shared),
                                 Cardinality(DOMAIN functions)))

\* C18: X and Y list the same outputs in different orders and Z has outputs
\* of its own: the score is 2/3 and Z is the only single point of failure
C18_Witness ==
    LET result == compute_function_redundancy(G)
        singles == result.single_points_of_failure
    IN  /\ DOMAIN functions = {1, 2, 3}
        /\ functions[1].outputs = <<1, 2>>
        /\ functions[2].outputs = <<2, 1>>
        /\ functions[3].outputs = <<2>>
        /\ Equal(result.redundancy_score, Fraction(2, 3))
        /\ {singles[i].function_id : i \in DOMAIN singles} = {3}
        /\ Len(result.redundant_paths) = 1


\* -------------------------------------------------------- anomaly detection
\* Python floats are binary floating point numbers rounded to the nearest,
\* ties to the even mantissa. The model keeps that arithmetic with a
\* mantissa of MantissaBits bits (53 in the interpreter) and no exponent
\* limits; a float is the fraction it stands for.
MantissaBits == 4
MaxAnomalySamples == 4

ExponentRange == 2 * MantissaBits + 2

pow2(e) == IF e >= 0 THEN Fraction(2^e, 1) ELSE Fraction(1, 2^(-e))

negative(x) == Fraction(-x.num, x.den)

plus(x, y) == Fraction(x.num * y.den + y.num * x.den, x.den * y.den)

minus(x, y) == plus(x, negative(y))

times(x, y) == Fraction(x.num * y.num, x.den * y.den)

over(x, y) ==
    IF y.num > 0 THEN Fraction(x.num * y.den, x.den * y.num)
    ELSE Fraction(-(x.num * y.den), x.den * (-y.num))

\* The nearest integer to x >= 0, a tie going to the even one
round_half_even(x) ==
    LET f == x.num \div x.den
        r == x.num % x.den
    IN  IF 2 * r > x.den \/ (2 * r = x.den /\ f % 2 = 1) THEN f + 1 ELSE f

\* The exponent e of x > 0: 2^(MantissaBits-1) <= x / 2^e < 2^MantissaBits
exponent(x) ==
    CHOOSE e \in -ExponentRange..ExponentRange :
        /\ LessEq(pow2(e + MantissaBits - 1), x)
        /\ Less(x, pow2(e + MantissaBits))

\* The float nearest to the real number x
round_positive(x) ==
    LET e == exponent(x)
    IN  times(Fraction(round_half_even(over(x, pow2(e))), 1), pow2(e))

round(x) ==
    IF x.num = 0 THEN Fraction(0, 1)
    ELSE IF x.num < 0 THEN negative(round_positive(negative(x)))
    ELSE round_positive(x)

\* The float nearest to the square root of x > 0 (x ** 0.5)
sqrt(x) ==
    LET e == CHOOSE e \in -ExponentRange..ExponentRange :
                 /\ LessEq(times(pow2(e + MantissaBits - 1),
                                 pow2(e + MantissaBits - 1)), x)
                 /\ Less(x, times(pow2(e + MantissaBits),
                                  pow2(e + MantissaBits)))
        square(m) == times(times(Fraction(m, 2), pow2(e)),
                           times(Fraction(m, 2), pow2(e)))
        m == CHOOSE m \in 2^(MantissaBits - 1)..(2^MantissaBits - 1) :
                 /\ LessEq(square(2 * m), x)
                 /\ Less(x, square(2 * m + 2))
    IN  IF Less(square(2 * m + 1), x)
        THEN times(Fraction(m + 1, 1), pow2(e))
        ELSE times(Fraction(m, 1), pow2(e))

\* A value that float() does not convert (it raises ValueError or TypeError),
\* such as 'n/a' or None
NonNumeric == -1

\* sum(floats): from 0, left to right, every addition rounded
RECURSIVE float_sum(_, _)
float_sum(total, s) ==
    IF s = <<>> THEN total
    ELSE float_sum(round(plus(total, Head(s))), Tail(s))

\* TimeSeriesData.detect_anomalies on the values of one property: the list
\* of the (0-based) indices of the anomalies
TimeSeriesData_detect_anomalies(vs, property_name, threshold) ==
    IF property_name \notin DOMAIN vs THEN <<>>
    ELSE IF Len(vs[property_name]) < 3 THEN <<>>
    ELSE IF NonNumeric \in Range(vs[property_name]) THEN <<>>
    ELSE LET numeric_values ==
                 [i \in DOMAIN vs[property_name] |->
                     Fraction(vs[property_name][i], 1)]
             n == Fraction(Len(numeric_values), 1)
             mean == round(over(float_sum(Fraction(0, 1), numeric_values), n))
             squares ==
                 [i \in DOMAIN numeric_values |->
                     round(times(round(minus(numeric_values[i], mean)),
                                 round(minus(numeric_values[i], mean))))]
             variance == round(over(float_sum(Fraction(0, 1), squares), n))
             std == IF variance.num = 0 THEN Fraction(0, 1) ELSE sqrt(variance)
             z_score(i) ==
                 LET z == round(over(round(minus(numeric_values[i], mean)), std))
                 IN  IF z.num < 0 THEN negative(z) ELSE z
             indices == [i \in DOMAIN numeric_values |-> i - 1]
         IN  IF std.num = 0 THEN <<>>
             ELSE SelectSeq(indices, LAMBDA i : Less(threshold, z_score(i + 1)))

\* detect_anomalies(form_elements, threshold) for the one FormElement whose
\* properties are (ts, vs): property name -> the indices it reports
detect_anomalies(ts, vs, threshold) ==
    LET found == {n \in DOMAIN vs :
                     TimeSeriesData_detect_anomalies(vs, n, threshold) # <<>>}
    IN  [n \in found |->
            SelectSeq(TimeSeriesData_detect_anomalies(vs, n, threshold),
                      LAMBDA idx : idx < Len(ts) /\ idx < Len(vs[n]))]

\* The values sampled: 1, and the two largest whole numbers of the mantissa
FloatSamples == {1, 2^MantissaBits - 2, 2^MantissaBits - 1}

\* The thresholds passed: 0, 0.5, 1.0 and the default 2.0
Thresholds ==
    {Fraction(0, 1), Fraction(1, 2), Fraction(1, 1), Fraction(2, 1)}

\* add_property_sample with a clock that does not go back
NextAnomaly ==
    /\ Len(samples) < MaxAnomalySamples
    /\ \E t \in Timestamps, n \in PropertyNames, v \in FloatSamples :
           /\ t \in {Len(timestamps), Len(timestamps) + 1}
           /\ AddPropertySample(t, n, v)

SpecAnomaly == InitGraph /\ [][NextAnomaly]_vars

\* C20: a property whose values are all the same, or that has fewer than 3
\* values, has no anomalies under any threshold >= 0:
\* TimeSeriesData.detect_anomalies returns the empty list and
\* detect_anomalies over the Form elements has no entry for the property
C20_NoAnomaliesOnConstantOrShort ==
    \A n \in DOMAIN values, threshold \in Thresholds :
        (Len(values[n]) < 3 \/ \A i, j \in DOMAIN values[n] :
                                  values[n][i] = values[n][j])
            => /\ TimeSeriesData_detect_anomalies(values, n, threshold) = <<>>
               /\ n \notin DOMAIN detect_anomalies(timestamps, values, threshold)


\* ------------------------------------------------- the analyses as a whole
MaxAnalysisOps == 5

\* mutant: the cascade's queue is the FailureMode's own propagates_to list,
\* which queue.pop(0) empties
analysis_leaves_shared_queue(g) ==
    [g EXCEPT !.failure_modes =
        [id \in DOMAIN @ |-> [@[id] EXCEPT !.propagates_to = <<>>]]]

\* The graph an analysis leaves behind. No analysis assigns to an attribute
\* of the graph or of one of its entities, and none calls a method that does;
\* the lists they append to and pop from (queue, cascade, reachable, visited,
\* affected, the result lists) are created in the call.
analysis_leaves(g) == g

\* analyze_structure, the part of the result that is modelled
analyze_structure(g) ==
    [criticality_scores |-> compute_criticality(g)]

\* analyze_function_tree, the part of the result that is modelled
analyze_function_tree(g) ==
    [redundancy |-> compute_function_redundancy(g)]

\* analyze_failure_propagation; propagation_paths and cascading_risks by the
\* FailureMode they start from
analyze_failure_propagation(g) ==
    [propagation_paths |->
         [failure_id \in path_sources(g) |-> propagation_path(failure_id, g)],
     critical_failures |-> identify_critical_failures(g, DefaultThreshold),
     cascading_risks |->
         [failure_id \in initiating_failures(g) |->
             cascading_scenario(failure_id, g)],
     risk_priorities |-> compute_risk_priority(g)]

\* analyze_timeseries, the part of the result that is modelled
analyze_timeseries(ts, vs) ==
    [anomalies |-> detect_anomalies(ts, vs, Fraction(2, 1))]

Analyses ==
    {"compute_criticality", "analyze_structure", "analyze_function_tree",
     "analyze_failure_propagation", "analyze_timeseries"}

\* What the analysis returns on the graph g and the series (ts, vs)
AnalysisResult(op, g, ts, vs) ==
    CASE op = "compute_criticality" -> compute_criticality(g)
      [] op = "analyze_structure" -> analyze_structure(g)
      [] op = "analyze_function_tree" -> analyze_function_tree(g)
      [] op = "analyze_failure_propagation" -> analyze_failure_propagation(g)
      [] op = "analyze_timeseries" -> analyze_timeseries(ts, vs)

\* One call of an analysis
Analyze(op) ==
    /\ SetGraph(analysis_leaves(G))
    /\ Called(op, <<>>, AnalysisResult(op, G, timestamps, values))
    /\ UNCHANGED <<overwritten, wvars, tsvars, rvars>>

NextAnalyses ==
    \/ /\ nops = 0
       /\ Len(samples) < MaxAnalysisOps
       /\ \E t \in Timestamps, v \in FloatSamples :
              /\ t \in {Len(timestamps), Len(timestamps) + 1}
              /\ AddPropertySample(t, "temperature", v)
    \/ /\ nops + Len(samples) < MaxAnalysisOps
       /\ UNCHANGED <<wvars, tsvars, rvars>>
       /\ \/ \E id \in Ids \ DOMAIN form_elements : AddFormElement(id)
          \/ \E id \in Ids \ DOMAIN functions : AddFunction(id)
          \/ \E failure \in NewFailureModes :
                 /\ failure.id \notin DOMAIN failure_modes
                 /\ AddFailureMode(failure)
          \/ \E a \in DOMAIN form_elements, b \in DOMAIN functions :
                 LinkFormToFunction(a, b)
          \/ \E a \in DOMAIN functions, b \in DOMAIN failure_modes :
                 LinkFunctionToFailure(a, b)
          \/ \E a \in DOMAIN form_elements, b \in DOMAIN failure_modes :
                 LinkFormToFailure(a, b)
          \/ \E a, b \in DOMAIN functions :
                 /\ a # b
                 /\ AddFunctionBranch(FunctionBranch(a, b, 9, 1))
          \/ \E a, b \in DOMAIN failure_modes :
                 /\ b \notin Range(failure_modes[a].propagates_to)
                 /\ AddFailureBranch(FailurePropagationBranch(a, b, 5))
          \/ \E a, b \in DOMAIN functions :
                 /\ a # b
                 /\ AddChild(a, b)
    \/ /\ nops + Len(samples) < MaxAnalysisOps
       /\ \E op \in Analyses : Analyze(op)

SpecAnalyses == InitGraph /\ [][NextAnalyses]_vars

_compute_linear_trend(s) ==
    IF NonNumeric \in Range(s) \/ Len(s) < 2 THEN [none |-> TRUE]
    ELSE LET n == Fraction(Len(s), 1)
             x == [i \in DOMAIN s |-> Fraction(i - 1, 1)]
             y == [i \in DOMAIN s |-> Fraction(s[i], 1)]
             x_mean == round(over(Fraction(sum([i \in DOMAIN s |-> i - 1]), 1), n))
             y_mean == round(over(float_sum(Fraction(0, 1), y), n))
             dx(i) == round(minus(x[i], x_mean))
             dy(i) == round(minus(y[i], y_mean))
             numerator ==
                 float_sum(Fraction(0, 1),
                           [i \in DOMAIN s |-> round(times(dx(i), dy(i)))])
             denominator ==
                 float_sum(Fraction(0, 1),
                           [i \in DOMAIN s |-> round(times(dx(i), dx(i)))])
             slope == round(over(numerator, denominator))
             intercept == round(minus(y_mean, round(times(slope, x_mean))))
             magnitude == IF slope.num < 0 THEN negative(slope) ELSE slope
         IN  IF denominator.num = 0 THEN [none |-> TRUE]
             ELSE [none |-> FALSE,
                   direction |->
                       IF Less(magnitude, round(Fraction(1, 100))) THEN "stable"
                       ELSE IF slope.num > 0 THEN "increasing"
                       ELSE "decreasing",
                   slope |-> slope,
                   intercept |-> intercept,
                   rate_of_change_percent |->
                       IF y_mean.num # 0
                       THEN round(times(round(over(slope, y_mean)),
                                        Fraction(100, 1)))
                       ELSE Fraction(0, 1)]

\* compute_trends(form_elements) for the one FormElement with the values vs
compute_trends(vs) ==
    LET kept == {n \in DOMAIN vs :
                    Len(vs[n]) >= 2 /\ ~_compute_linear_trend(vs[n]).none}
    IN  [n \in kept |-> _compute_linear_trend(vs[n])]

\* forecast_values, horizon: int = 5
DefaultHorizon == 5

\* _simple_forecast(values, horizon): the list of predicted values, the
\* empty list where the function returns None
_simple_forecast(s, horizon) ==
    IF NonNumeric \in Range(s) \/ Len(s) < 2 THEN <<>>
    ELSE IF _compute_linear_trend(s).none THEN <<>>
    ELSE LET trend == _compute_linear_trend(s)
         IN  [k \in 1..horizon |->
                 round(plus(round(times(trend.slope,
                                        Fraction(Len(s) + k - 1, 1))),
                            trend.intercept))]

\* forecast_values(form_elements, horizon) for the one FormElement
forecast_values(vs, horizon) ==
    LET kept == {n \in DOMAIN vs :
                    /\ Len(vs[n]) >= 3
                    /\ _simple_forecast(vs[n], horizon) # <<>>}
    IN  [n \in kept |-> _simple_forecast(vs[n], horizon)]

\* _compute_basic_stats(values), the list not empty
_compute_basic_stats(s) ==
    LET n == Len(s)
        y == [i \in DOMAIN s |-> Fraction(s[i], 1)]
        mean == round(over(float_sum(Fraction(0, 1), y), Fraction(n, 1)))
        variance ==
            round(over(float_sum(Fraction(0, 1),
                           [i \in DOMAIN s |->
                               round(times(round(minus(y[i], mean)),
                                           round(minus(y[i], mean))))]),
                       Fraction(n, 1)))
        sorted_values == sorted_list(s)
    IN  [mean |-> mean,
         median |->
             IF n % 2 = 0
             THEN round(Fraction(sorted_values[n \div 2]
                                     + sorted_values[n \div 2 + 1], 2))
             ELSE Fraction(sorted_values[n \div 2 + 1], 1),
         std |-> IF variance.num = 0 THEN Fraction(0, 1) ELSE sqrt(variance),
         variance |-> variance,
         min |-> sorted_values[1],
         max |-> sorted_values[n],
         range |-> sorted_values[n] - sorted_values[1],
         count |-> n]

\* compute_statistics(form_elements) for the one FormElement
compute_statistics(vs) ==
    LET kept == {n \in DOMAIN vs : NonNumeric \notin Range(vs[n]) /\ vs[n] # <<>>}
    IN  [n \in kept |-> _compute_basic_stats(vs[n])]

\* The values sampled where some are not numbers
MixedSamples == {1, 2^MantissaBits - 1, NonNumeric}

NextSkip ==
    /\ Len(samples) < MaxAnomalySamples
    /\ \E t \in Timestamps, n \in PropertyNames, v \in MixedSamples :
           /\ t \in {Len(timestamps), Len(timestamps) + 1}
           /\ AddPropertySample(t, n, v)

SpecSkip == InitGraph /\ [][NextSkip]_vars

\* The series as it would be had property_name never been sampled: the
\* remaining samples added in the same order
series_without(property_name) ==
    LET rest == SelectSeq(samples, LAMBDA sample : sample[2] # property_name)
    IN  [timestamps |-> first_occurrences(<<>>, [i \in DOMAIN rest |-> rest[i][1]]),
         values |-> [n \in DOMAIN values \ {property_name} |-> values[n]]]

\* C21: a property with a value that float() rejects is in none of the
\* results of detect_anomalies, compute_trends, forecast_values and
\* compute_statistics, and each of the four gives for the Form element what
\* it gives when that property was never sampled
C21_NonNumericSkipped ==
    \A n \in DOMAIN values :
        NonNumeric \in Range(values[n])
            => LET without == series_without(n)
               IN  \A threshold \in Thresholds :
                       /\ n \notin DOMAIN detect_anomalies(timestamps, values, threshold)
                       /\ n \notin DOMAIN compute_trends(values)
                       /\ n \notin DOMAIN forecast_values(values, DefaultHorizon)
                       /\ n \notin DOMAIN compute_statistics(values)
                       /\ detect_anomalies(timestamps, values, threshold)
                              = detect_anomalies(without.timestamps,
                                                 without.values, threshold)
                       /\ compute_trends(values) = compute_trends(without.values)
                       /\ forecast_values(values, DefaultHorizon)
                              = forecast_values(without.values, DefaultHorizon)
                       /\ compute_statistics(values)
                              = compute_statistics(without.values)


\* --------------------------------------------------- range of the scores
\* The severities of the FailureModes added, on a scale with both signs
SignedSeverities == {-8, 8}

NextScore ==
    /\ nops < MaxCritOps
    /\ UNCHANGED <<wvars, tsvars, rvars>>
    /\ \/ \E id \in CritIds \ DOMAIN form_elements : AddFormElement(id)
       \/ \E id \in CritIds \ DOMAIN functions : AddFunction(id)
       \/ \E id \in CritIds \ DOMAIN failure_modes,
             severity \in SignedSeverities,
             af \in {<<>>} \cup {<<c>> : c \in CritIds} :
              AddFailureMode(FailureMode(id, severity, 5, 0, af))
       \/ \E a \in DOMAIN form_elements, b \in DOMAIN functions :
              LinkFormToFunction(a, b)
       \/ \E a \in DOMAIN form_elements, b \in DOMAIN failure_modes :
              LinkFormToFailure(a, b)
       \/ \E a, b \in DOMAIN functions : a # b /\ AddChild(a, b)

SpecScore == InitGraph /\ [][NextScore]_vars

\* C22: every score compute_criticality returns is at least 0 and at most 1,
\* whatever the severities of the FailureModes, and when some Form element
\* has a positive combined score the largest returned score is 1
C22_ScoresInUnitRange ==
    LET result == compute_criticality(G)
    IN  ~result.raised
            => /\ \A f \in DOMAIN result.scores :
                      /\ LessEq(Fraction(0, 1), result.scores[f])
                      /\ LessEq(result.scores[f], Fraction(1, 1))
               /\ (DOMAIN form_elements # {} /\ max_score(G) > 0)
                      => /\ \E f \in DOMAIN result.scores :
                                Equal(result.scores[f], Fraction(1, 1))


\* C23: the index of from_dict(to_dict(g)) has an edge u -> v with relation
\* r exactly when the index of g has it, and compute_risk_priority and
\* compute_criticality give on the restored graph what they give on g
C23_IndexRestored ==
    LET h == from_dict(to_dict(G))
    IN  /\ BagToSet(h.edges) = BagToSet(edges)
        /\ compute_risk_priority(h) = compute_risk_priority(G)
        /\ compute_criticality(h) = compute_criticality(G)


\* ------------------------------------------- a restored graph and its source
MaxSharedOps == 5

\* FailureMode.to_dict puts the four relationship lists of the FailureMode
\* into the map and FailureMode.from_dict puts the lists of the map into the
\* new FailureMode, neither copies: a FailureMode of g, its entry in the map
\* and the FailureMode of h hold the same list objects. m with the lists as
\* they are in r:
with_lists_of(m, r) ==
    [m EXCEPT !.affects_functions = r.affects_functions,
              !.affects_forms = r.affects_forms,
              !.propagates_to = r.propagates_to,
              !.mitigated_by = r.mitigated_by]

\* g, and the map, after the lists they share with h have become what they
\* are in h
sharing_graph(g, h) ==
    [g EXCEPT !.failure_modes =
        [id \in DOMAIN @ |->
            IF id \in DOMAIN h.failure_modes
            THEN with_lists_of(@[id], h.failure_modes[id]) ELSE @[id]]]

sharing_map(data, h) ==
    [data EXCEPT !.failure_modes =
        [i \in DOMAIN @ |->
            IF @[i].id \in DOMAIN h.failure_modes
            THEN with_lists_of(@[i], h.failure_modes[@[i].id]) ELSE @[i]]]

\* h = UniversalGraph.from_dict(g.to_dict())
Restore ==
    /\ ~restored.made
    /\ LET h == from_dict(to_dict(G))
       IN  /\ restored' = [made |-> TRUE, graph |-> h,
                           data |-> sharing_map(to_dict(G), h)]
           /\ SetGraph(sharing_graph(G, h))
    /\ Called("from_dict", <<>>, "done")
    /\ UNCHANGED overwritten

\* An operation on h that leaves h as h2
OnRestored(op, args, h2) ==
    /\ restored.made
    /\ restored' = [restored EXCEPT !.graph = h2, !.data = sharing_map(@, h2)]
    /\ SetGraph(sharing_graph(G, h2))
    /\ Called(op, args, "done")
    /\ UNCHANGED overwritten

NextShared ==
    /\ nops < MaxSharedOps
    /\ UNCHANGED <<wvars, tsvars>>
    /\ \/ /\ ~restored.made
          /\ UNCHANGED rvars
          /\ \/ \E id \in Ids \ DOMAIN form_elements : AddFormElement(id)
             \/ \E id \in Ids \ DOMAIN functions : AddFunction(id)
             \/ \E failure \in NewFailureModes : AddFailureMode(failure)
             \/ \E a, b \in DOMAIN failure_modes :
                    /\ b \notin Range(failure_modes[a].propagates_to)
                    /\ AddFailureBranch(FailurePropagationBranch(a, b, 5))
       \/ Restore
       \/ \E a \in DOMAIN restored.graph.functions,
             b \in DOMAIN restored.graph.failure_modes :
              OnRestored("link_function_to_failure", <<a, b>>,
                         link_function_to_failure(restored.graph, a, b))
       \/ \E a \in DOMAIN restored.graph.form_elements,
             b \in DOMAIN restored.graph.failure_modes :
              OnRestored("link_form_to_failure", <<a, b>>,
                         link_form_to_failure(restored.graph, a, b))
       \/ \E a, b \in DOMAIN restored.graph.failure_modes :
              OnRestored("add_failure_branch", <<a, b>>,
                         add_failure_branch(restored.graph,
                             FailurePropagationBranch(a, b, 5)))

SpecShared == InitGraph /\ [][NextShared]_vars

\* C24: from_dict leaves the map it is given as it was, and once h is made
\* every link_function_to_failure, link_form_to_failure and
\* add_failure_branch on h leaves g and the map as they were
C24_NoSharedState ==
    [][restored'.made
          => /\ Gp = G
             /\ restored'.data =
                    IF restored.made THEN restored.data ELSE to_dict(G)]_vars


\* C25: for every source and every max_depth from 0 on, the list of the
\* reachable failures holds no id twice and does not hold the source, so its
\* length (path_length) is the number of distinct FailureModes reached
C25_ReachableListedOnce ==
    \A source \in DOMAIN failure_modes, d \in 0..MaxDepthArg :
        LET reachable == _find_reachable_failures(source, G, d)
        IN  /\ Len(reachable) = Cardinality(Range(reachable))
            /\ source \notin Range(reachable)


\* ------------------------------------------------------------- get_range
\* TimeSeriesData.get_range(property_name, start, end)
get_range(ts, vs, property_name, start, end) ==
    IF property_name \notin DOMAIN vs THEN <<>>
    ELSE LET kept == SelectSeq([i \in DOMAIN ts |-> i],
                         LAMBDA i : /\ start <= ts[i]
                                    /\ ts[i] <= end
                                    /\ i - 1 < Len(vs[property_name]))
         IN  [k \in DOMAIN kept |-> vs[property_name][kept[k]]]

\* C26: get_range(p, start, end) is the list of the values that were added
\* for p with a timestamp from start to end, in the order they were added,
\* and the empty list for a property never added
C26_RangeExact ==
    \A p \in PropertyNames, start \in Timestamps, end \in Timestamps :
        LET added == SelectSeq(samples,
                         LAMBDA sample : /\ sample[2] = p
                                         /\ start <= sample[1]
                                         /\ sample[1] <= end)
        IN  get_range(timestamps, values, p, start, end)
                = [k \in DOMAIN added |-> added[k][3]]


\* C27: redundancy_score times the number of Functions is the sum of the
\* redundancy_level of the entries of redundant_paths; Functions without
\* outputs are in no entry and add nothing to the score
C27_ScoreAgreesWithGroups ==
    LET result == compute_function_redundancy(G)
        paths == result.redundant_paths
    IN  Equal(Fraction(result.redundancy_score.num
                           * Cardinality(DOMAIN functions),
                       result.redundancy_score.den),
              Fraction(sum([i \in DOMAIN paths |-> paths[i].redundancy_level]),
                       1))

\* ------------------------------------------------------ function bottlenecks
MaxBottleneckOps == 5

\* identify_function_bottlenecks, top_n: int = 5
DefaultTopN == 5

\* identify_function_bottlenecks(graph, top_n); reliabilities are in tenths,
\* the averages and the score are fractions:
\* in_degree * 0.3 + (1 - avg_reliability) * 0.4 + min(avg_latency / 100, 1) * 0.3
identify_function_bottlenecks(g, top_n) ==
    LET entry(func_id) ==
            LET in_degree == IF func_id \in g.nodes
                             THEN Cardinality(predecessors(g, func_id)) ELSE 0
                out_degree == IF func_id \in g.nodes
                              THEN Cardinality(neighbors(g, func_id)) ELSE 0
                related_branches ==
                    SelectSeq(g.function_branches,
                        LAMBDA b : b.source = func_id \/ b.target = func_id)
                n == IF related_branches = <<>> THEN 1 ELSE Len(related_branches)
                reliabilities ==
                    IF related_branches = <<>> THEN 10
                    ELSE sum([i \in DOMAIN related_branches |->
                                 related_branches[i].reliability])
                latencies ==
                    sum([i \in DOMAIN related_branches |->
                            related_branches[i].latency])
                bottleneck_score ==
                    Fraction(in_degree * 300 * n
                                 + (10 * n - reliabilities) * 40
                                 + (IF latencies >= 100 * n THEN 300 * n
                                    ELSE 3 * latencies),
                             1000 * n)
            IN  [function_id |-> func_id,
                 bottleneck_score |-> bottleneck_score,
                 in_degree |-> in_degree,
                 out_degree |-> out_degree,
                 avg_reliability |-> Fraction(reliabilities, 10 * n),
                 avg_latency |-> Fraction(latencies, n),
                 is_critical |-> Less(Fraction(5, 10), bottleneck_score)]
        bottlenecks ==
            sort_reverse(<<>>,
                SelectSeq([i \in DOMAIN g.function_keys |-> entry(g.function_keys[i])],
                          LAMBDA e : e.bottleneck_score.num > 0),
                "bottleneck_score")
    IN  SubSeq(bottlenecks, 1,
               IF Len(bottlenecks) < top_n THEN Len(bottlenecks) ELSE top_n)

\* The ids of the Form elements, apart from those of the Functions
BottleneckFormIds == {MaxFn + 1}

\* The reliabilities of the branches added, in tenths: 0.5 and 1.0
Reliabilities == {5, 10}

NextBottleneck ==
    /\ nops < MaxBottleneckOps
    /\ UNCHANGED <<wvars, tsvars, rvars>>
    /\ \/ \E id \in FnIds \ DOMAIN functions : AddFunction(id)
       \/ \E id \in BottleneckFormIds \ DOMAIN form_elements : AddFormElement(id)
       \/ \E a \in DOMAIN form_elements, b \in DOMAIN functions :
              LinkFormToFunction(a, b)
       \/ \E a, b \in DOMAIN functions, r \in Reliabilities :
              /\ a # b
              /\ AddFunctionBranch(FunctionBranch(a, b, r, 50))

SpecBottleneck == InitGraph /\ [][NextBottleneck]_vars

\* C28: the in_degree reported for a function is the number of distinct
\* Functions with a function_flow branch into it, and a call of
\* link_form_to_function changes no entry of identify_function_bottlenecks
\* (in_degree, bottleneck_score, is_critical)
C28_InDegreeCountsFunctions ==
    [][/\ \A i \in DOMAIN identify_function_bottlenecks(Gp, DefaultTopN) :
              LET e == identify_function_bottlenecks(Gp, DefaultTopN)[i]
              IN  e.in_degree =
                      Cardinality({b.source : b \in
                          {x \in Range(function_branches') :
                              x.target = e.function_id}})
       /\ last'.op = "link_form_to_function"
              => identify_function_bottlenecks(Gp, DefaultTopN)
                     = identify_function_bottlenecks(G, DefaultTopN)]_vars


\* ------------------------------------------------- critical function paths
\* nx.all_simple_paths(..., cutoff=10) and critical_paths[:10]
Cutoff == 10
TopPaths == 10

\* The same number with numerator and denominator in lowest terms
RECURSIVE gcd(_, _)
gcd(a, b) == IF b = 0 THEN a ELSE gcd(b, a % b)

lowest_terms(x) ==
    LET d == gcd(x.num, x.den)
    IN  IF d = 0 THEN x ELSE Fraction(x.num \div d, x.den \div d)

\* s, k times over
RECURSIVE repeated(_, _)
repeated(s, k) == IF k = 0 THEN <<>> ELSE s \o repeated(s, k - 1)

\* The lists of a list of lists, joined
RECURSIVE joined(_)
joined(lists) == IF lists = <<>> THEN <<>> ELSE Head(lists) \o joined(Tail(lists))

\* The number of edges u -> v of the multigraph index
number_of_edges(g, u, v) ==
    LET between == {e \in BagToSet(g.edges) : e[1] = u /\ e[2] = v}
    IN  SumOf([e \in between |-> CopiesIn(e, g.edges)])

\* The depth-first search of nx.all_simple_paths on a multigraph, from the
\* last node of `visited` on: a child is stepped to once for every edge to
\* it, a path ends at the target, and no path has more than `cutoff` edges.
\* The children are taken in ascending order; the order of the index decides
\* only the order of paths of equal criticality.
RECURSIVE simple_paths_from(_, _, _, _)
simple_paths_from(g, visited, target, cutoff) ==
    LET u == visited[Len(visited)]
        children == SortedSeq(neighbors(g, u) \ Range(visited))
        through(v) ==
            IF v = target THEN <<Append(visited, v)>>
            ELSE IF Len(visited) < cutoff
            THEN simple_paths_from(g, Append(visited, v), target, cutoff)
            ELSE <<>>
    IN  IF Len(visited) - 1 < cutoff
        THEN joined([i \in DOMAIN children |->
                 repeated(through(children[i]),
                          number_of_edges(g, u, children[i]))])
        ELSE <<>>

\* list(nx.all_simple_paths(graph.graph, source, target, cutoff)). Where the
\* source is the target the library yields, by its version, no path or the
\* path of the source alone: `single` says which.
all_simple_paths(g, source, target, cutoff, single) ==
    IF source = target
    THEN (IF single THEN <<<<source>>>> ELSE <<>>)
    ELSE simple_paths_from(g, <<source>>, target, cutoff)

\* The FunctionBranches from source to target, in the order of the list
branches_between(g, source, target) ==
    SelectSeq(g.function_branches,
              LAMBDA b : b.source = source /\ b.target = target)

\* mutant: the last matching branch
RECURSIVE _compute_path_reliability_last_branch(_, _)
_compute_path_reliability_last_branch(p, g) ==
    IF Len(p) < 2 THEN Fraction(1, 1)
    ELSE LET found == branches_between(g, p[1], p[2])
             rest == _compute_path_reliability_last_branch(Tail(p), g)
         IN  IF found = <<>> THEN rest
             ELSE lowest_terms(Fraction(found[Len(found)].reliability * rest.num,
                                        10 * rest.den))

\* _compute_path_reliability: the product of the reliability of the first
\* matching branch of every consecutive pair (reliabilities are in tenths)
RECURSIVE _compute_path_reliability(_, _)
_compute_path_reliability(p, g) ==
    IF Len(p) < 2 THEN Fraction(1, 1)
    ELSE LET found == branches_between(g, p[1], p[2])
             rest == _compute_path_reliability(Tail(p), g)
         IN  IF found = <<>> THEN rest
             ELSE lowest_terms(Fraction(found[1].reliability * rest.num,
                                        10 * rest.den))

\* _compute_path_latency: the sum of the latency of the first matching branch
RECURSIVE _compute_path_latency(_, _)
_compute_path_latency(p, g) ==
    IF Len(p) < 2 THEN 0
    ELSE LET found == branches_between(g, p[1], p[2])
         IN  (IF found = <<>> THEN 0 ELSE found[1].latency)
                 + _compute_path_latency(Tail(p), g)

\* find_critical_function_paths
find_critical_function_paths(g, single) ==
    LET fs == [i \in DOMAIN g.function_keys |-> g.functions[g.function_keys[i]]]
        root_functions == SelectSeq(fs, LAMBDA f : f.parent_function = None)
        leaf_functions == SelectSeq(fs, LAMBDA f : f.children = <<>>)
        entry(p) ==
            LET path_reliability == _compute_path_reliability(p, g)
            IN  [path |-> p,
                 length |-> Len(p),
                 reliability |-> path_reliability,
                 latency |-> _compute_path_latency(p, g),
                 criticality |->
                     Fraction((path_reliability.den - path_reliability.num) * Len(p),
                              path_reliability.den)]
        paths(root, leaf) ==
            IF root.id \in g.nodes /\ leaf.id \in g.nodes
            THEN LET found == all_simple_paths(g, root.id, leaf.id, Cutoff, single)
                 IN  [i \in DOMAIN found |-> entry(found[i])]
            ELSE <<>>
        critical_paths ==
            joined([i \in DOMAIN root_functions |->
                joined([j \in DOMAIN leaf_functions |-> paths(root_functions[i], leaf_functions[j])])])
        ordered == sort_reverse(<<>>, critical_paths, "criticality")
    IN  SubSeq(ordered, 1, IF Len(ordered) < TopPaths THEN Len(ordered) ELSE TopPaths)


MaxPathOps == 7
MaxChainFn == 12
MaxChainRoots == 5

\* A chain of branches 1 -> 2 -> ... with reliability 0.5, the first pair
\* with a second branch of reliability 1.0 behind the first
chain_branches(n) ==
    <<FunctionBranch(1, 2, 5, 50), FunctionBranch(1, 2, 10, 50)>>
        \o [i \in 1..(n - 2) |-> FunctionBranch(i + 1, i + 2, 5, 50)]

\* Up to MaxFn Functions take any branches and children within MaxPathOps
\* calls; further Functions extend the chain, one Function and its branch at
\* a time, up to MaxChainFn Functions; those behind the first MaxChainRoots
\* are also made the child of the Function before them.
NextCriticalPaths ==
    /\ UNCHANGED <<wvars, tsvars, rvars>>
    /\ LET n == Cardinality(DOMAIN functions)
       IN  \/ /\ nops < MaxPathOps
              /\ n < MaxFn
              /\ AddFunction(n + 1)
           \/ /\ nops < MaxPathOps
              /\ n <= MaxFn
              /\ \E a, b \in DOMAIN functions, r \in Reliabilities :
                     /\ a # b
                     /\ AddFunctionBranch(FunctionBranch(a, b, r, 50))
           \/ /\ nops < MaxPathOps
              /\ n <= MaxFn
              /\ \E a, b \in DOMAIN functions :
                     /\ a < b
                     /\ functions[b].parent_function = None
                     /\ AddChild(a, b)
           \/ /\ MaxFn <= n /\ n < MaxChainFn
              /\ function_branches = chain_branches(n)
              /\ n > MaxChainRoots => functions[n].parent_function = n - 1
              /\ AddFunction(n + 1)
           \/ /\ MaxFn < n
              /\ function_branches = chain_branches(n - 1)
              /\ AddFunctionBranch(FunctionBranch(n - 1, n, 5, 50))
           \/ /\ MaxChainRoots < n
              /\ function_branches = chain_branches(n)
              /\ functions[n].parent_function = None
              /\ AddChild(n - 1, n)

SpecCriticalPaths == InitGraph /\ [][NextCriticalPaths]_vars

\* The simple paths of the index from the last node of `visited` to target
RECURSIVE simple_paths_to(_, _, _)
simple_paths_to(g, visited, target) ==
    IF visited[Len(visited)] = target THEN {visited}
    ELSE UNION {simple_paths_to(g, Append(visited, v), target) :
                    v \in neighbors(g, visited[Len(visited)]) \ Range(visited)}

\* The reliability of the first FunctionBranch from a to b, 1.0 without one
first_reliability(a, b) ==
    LET matching == {k \in DOMAIN function_branches :
                        /\ function_branches[k].source = a
                        /\ function_branches[k].target = b}
    IN  IF matching = {} THEN Fraction(1, 1)
        ELSE lowest_terms(Fraction(
                 function_branches[CHOOSE k \in matching :
                                       \A j \in matching : k <= j].reliability,
                 10))

\* The product of first_reliability over the consecutive pairs of p
product_of_first(p) ==
    Fraction(ProductOf([k \in 1..(Len(p) - 1) |-> first_reliability(p[k], p[k + 1]).num]),
             ProductOf([k \in 1..(Len(p) - 1) |-> first_reliability(p[k], p[k + 1]).den]))

\* (1 - reliability) * number of nodes, for the product of p
criticality_of(p) ==
    Fraction((product_of_first(p).den - product_of_first(p).num) * Len(p),
             product_of_first(p).den)

\* C29: find_critical_function_paths returns at most 10 entries in
\* non-increasing order of criticality; every returned path starts at a
\* Function without parent, ends at a Function without children, follows
\* edges of the index, repeats no node and has at most 10 hops; its
\* reliability is the product of the reliability of the first FunctionBranch
\* of every consecutive pair (1.0 without one) and its criticality is
\* (1 - reliability) * number of nodes; and no simple path of at most 10 hops
\* from such a root to such a leaf that is not returned has a criticality
\* strictly greater than a returned one. This holds whether or not the
\* library yields the path of a single node.
C29_CriticalPaths ==
    \A single \in BOOLEAN :
        LET result == find_critical_function_paths(G, single)
            returned == {result[i].path : i \in DOMAIN result}
            no_parent == {f \in DOMAIN functions :
                             functions[f].parent_function = None}
            no_children == {f \in DOMAIN functions :
                               functions[f].children = <<>>}
        IN  /\ Len(result) <= TopPaths
            /\ \A i, j \in DOMAIN result :
                   i < j => LessEq(result[j].criticality, result[i].criticality)
            /\ \A i \in DOMAIN result :
                   LET p == result[i].path
                   IN  /\ p[1] \in no_parent
                       /\ p[Len(p)] \in no_children
                       /\ \A k \in 1..(Len(p) - 1) : HasEdge(p[k], p[k + 1])
                       /\ Cardinality(Range(p)) = Len(p)
                       /\ Len(p) - 1 <= Cutoff
                       /\ result[i].length = Len(p)
                       /\ Equal(result[i].reliability, product_of_first(p))
                       /\ Equal(result[i].criticality, criticality_of(p))
            /\ \A r \in no_parent, l \in no_children :
                   \A p \in simple_paths_to(G, <<r>>, l) :
                       (Len(p) - 1 <= Cutoff /\ p \notin returned)
                           => \A i \in DOMAIN result :
                                  LessEq(criticality_of(p), result[i].criticality)

\* TopPaths entries are returned and a simple path from a root to a leaf is
\* left out; a returned path goes over a pair with two branches of different
\* reliability; a returned path has Cutoff hops; and a simple path of more
\* than Cutoff hops leads from a root to a leaf
C29_Witness ==
    LET result == find_critical_function_paths(G, FALSE)
        returned == {result[i].path : i \in DOMAIN result}
    IN  /\ Len(result) = TopPaths
        /\ \E r, l \in DOMAIN functions :
               /\ functions[r].parent_function = None
               /\ functions[l].children = <<>>
               /\ \E p \in simple_paths_to(G, <<r>>, l) :
                      Len(p) > 1 /\ Len(p) - 1 <= Cutoff /\ p \notin returned
        /\ \E i \in DOMAIN result :
               \E k \in 1..(Len(result[i].path) - 1) :
                   \E x, y \in Range(function_branches) :
                       /\ x.source = result[i].path[k]
                       /\ x.target = result[i].path[k + 1]
                       /\ y.source = x.source /\ y.target = x.target
                       /\ x.reliability # y.reliability
        /\ \E i \in DOMAIN result : Len(result[i].path) - 1 = Cutoff
        /\ MaxChainFn \in DOMAIN functions
        /\ functions[1].parent_function = None
        /\ functions[MaxChainFn].children = <<>>
        /\ \E p \in simple_paths_to(G, <<1>>, MaxChainFn) : Len(p) - 1 > Cutoff
====
